---- MODULE Spec2Model ----
(***************************************************************************)
(* Model of the browser-automation core of the repository                  *)
(* (core/gas-playwright): the shared browser manager, the login and        *)
(* dashboard-fetch flows with their browsing contexts, and the polling     *)
(* loops.                                                                  *)
(*                                                                         *)
(* JavaScript runs one callback at a time: an async function runs          *)
(* synchronously up to its next `await`, so every action below is one      *)
(* synchronous run of code between two awaits, or one event delivered by   *)
(* the automation driver (launch settled, browser disconnected).           *)
(***************************************************************************)
EXTENDS Integers, Sequences, FiniteSets, TLC

\* ------------------------------------------------------------------ bounds
MaxLaunches == 3        \* launches of the browser process in one behaviour
MaxCalls == 3           \* calls the callers issue in one behaviour, all together
MaxCloseCalls == 2      \* calls of closeSharedBrowser in one behaviour
MaxTicks == 14          \* how far the clock runs, in ticks
MaxJitterTicks == 1     \* how late a 300 ms wait may end, in ticks
MaxLen == 3             \* characters of a token or parameter value
MaxCols == 2            \* header cells, and cells of a row, of the table
MaxWords == 7           \* words and spaces of the text of a one-cell table

Callers == {1, 2}       \* concurrent callers; in Spec each is one request: one operation
InstIds == 1..MaxLaunches
Modes == {"headless", "headful"}   \* headless = true / headless = false
NoMode == "null"

VARIABLES
    sharedBrowser,          \* 0 (null) or the instance the module caches
    sharedBrowserPromise,   \* 0 (null) or the launch whose promise is cached
    sharedBrowserHeadless,  \* NoMode or the mode cached with the instance
    inst,                   \* the browser processes: state, launch mode, who closed
    launchCount,            \* chromium.launch calls made so far
    op,                     \* per caller: the call it is running and its locals
    pages,                  \* the pages opened so far, in order: owner and address
    closerPc, closerRef,    \* the caller of closeSharedBrowser
    closeCalls,             \* the closeSharedBrowser calls made so far: what each found cached
    now,                    \* the clock, in ms
    dom,                    \* what the page shows to a sample of the polling loop
    poll,                   \* the running polling loop and its locals
    readySince,             \* history: since when the predicate has held without a break, or -1
    pure,                   \* one call of a synchronous function: arguments and return value
    loginRateLimitStore,    \* the server's Map: per key, the record or none
    clockMs,                \* Date.now() as the server sees it
    reqLog                  \* history: the login requests so far: key, time, answer

mgrVars == <<sharedBrowser, sharedBrowserPromise, sharedBrowserHeadless, inst,
             launchCount, closerPc, closerRef, closeCalls>>
pollVars == <<now, dom, poll, readySince>>
limVars == <<loginRateLimitStore, clockMs, reqLog>>
vars == <<mgrVars, op, pages, pollVars, pure, limVars>>

\* ------------------------------------------------- the browser processes
NoInst == [st |-> "unused", mode |-> NoMode]

\* browser.isConnected()
Connected(i) == i # 0 /\ inst[i].st \in {"live", "closing"}

\* launched and not yet closed or disconnected
LiveSet == {i \in InstIds : inst[i].st \in {"live", "closing"}}

\* launches started and not yet settled
InFlight == {i \in InstIds : inst[i].st = "launching"}

\* browser.close(): the process is asked to exit; it is gone at Disconnect
CloseOf(i) ==
    [inst EXCEPT ![i] = IF @.st = "live" THEN [@ EXCEPT !.st = "closing"] ELSE @]

\* ------------------------------------------------------------ the callers
NoOut == [res |-> "none", code |-> "", at |-> "", killer |-> 0, data |-> ""]

IdleOp == [pc |-> "idle", kind |-> "none", req |-> NoMode, tok |-> "",
           ref |-> 0, how |-> "none", old |-> 0, lc0 |-> 0, browser |-> 0,
           ctx |-> "none", page |-> 0, step |-> 0, killedBy |-> 0,
           pend |-> NoOut, out |-> NoOut, calls |-> 0]

RECURSIVE SumCalls(_)
SumCalls(S) == IF S = {} THEN 0
               ELSE LET c == CHOOSE x \in S : TRUE IN op[c].calls + SumCalls(S \ {c})

\* a call that has begun: the locals of the previous call are gone
Fresh(c, kind, h, tok) ==
    [IdleOp EXCEPT !.kind = kind, !.req = h, !.tok = tok, !.lc0 = launchCount,
                   !.calls = op[c].calls + 1]

\* ------------------------------------------------ getSharedBrowser(headless)
\* lines 27-48: start a launch unless a promise is cached, then return the
\* cached promise. `promise` and `I` are sharedBrowserPromise and inst as the
\* lines before left them.
StartOrJoin(c, r, promise, I, how) ==
    IF promise = 0
    THEN /\ launchCount < MaxLaunches
         /\ launchCount' = launchCount + 1
         /\ inst' = [I EXCEPT ![launchCount + 1] =
                        [NoInst EXCEPT !.st = "launching", !.mode = r.req]]
         /\ sharedBrowserPromise' = launchCount + 1
         /\ op' = [op EXCEPT ![c] = [r EXCEPT !.pc = "awaitLaunch", !.ref = launchCount + 1,
                                              !.how = how]]
    ELSE /\ UNCHANGED launchCount
         /\ inst' = I
         /\ sharedBrowserPromise' = promise
         /\ op' = [op EXCEPT ![c] = [r EXCEPT !.pc = "awaitLaunch", !.ref = promise,
                                              !.how = "join"]]

\* line 17: the cached instance is connected and has the requested mode
AcquireHit(c, r) ==
    /\ op' = [op EXCEPT ![c] = [r EXCEPT !.pc = "acquired", !.browser = sharedBrowser,
                                         !.how = "hit"]]
    /\ UNCHANGED <<mgrVars, pages>>

\* a mode change that resets the cache and launches without closing the
\* cached instance first
AcquireModeChangeNoClose(c, r) ==
    /\ sharedBrowser' = 0
    /\ sharedBrowserHeadless' = NoMode
    /\ StartOrJoin(c, [r EXCEPT !.old = sharedBrowser], 0, inst, "relaunch")
    /\ UNCHANGED <<closerPc, closerRef, closeCalls, pages>>

\* lines 20-21: the cached instance has the other mode; close() is called
\* on it and awaited
AcquireModeChange(c, r) ==
    /\ inst' = CloseOf(sharedBrowser)
    /\ op' = [d \in Callers |->
                IF d = c
                THEN [r EXCEPT !.pc = "awaitClose", !.ref = sharedBrowser,
                               !.old = sharedBrowser]
                ELSE IF op[d].browser = sharedBrowser /\ inst[sharedBrowser].st = "live"
                THEN [op[d] EXCEPT !.killedBy = c]   \* history: whose close() this was
                ELSE op[d]]
    /\ UNCHANGED <<sharedBrowser, sharedBrowserPromise, sharedBrowserHeadless,
                   launchCount, closerPc, closerRef, closeCalls, pages>>

\* lines 16-26 and, when the run does not suspend on close(), lines 27-48
AcquireEnter(c, r) ==
    IF Connected(sharedBrowser) /\ sharedBrowserHeadless = r.req
    THEN AcquireHit(c, r)
    ELSE IF Connected(sharedBrowser) /\ sharedBrowserHeadless # r.req
    THEN AcquireModeChange(c, r)
    ELSE /\ StartOrJoin(c, r, sharedBrowserPromise, inst, "launch")
         /\ UNCHANGED <<sharedBrowser, sharedBrowserHeadless, closerPc, closerRef,
                        closeCalls, pages>>

\* a caller calls getSharedBrowser(h)
Acquire(c, h) ==
    /\ op[c].pc \in {"idle", "acquired", "done"}
    /\ SumCalls(Callers) < MaxCalls
    /\ AcquireEnter(c, Fresh(c, "acquire", h, ""))
    /\ UNCHANGED <<pollVars, pure, limVars>>

\* lines 22-48: the awaited close() has settled (its failure is swallowed)
AcquireAfterClose(c) ==
    /\ op[c].pc = "awaitClose"
    /\ inst[op[c].ref].st = "closed"
    /\ sharedBrowser' = 0
    /\ sharedBrowserHeadless' = NoMode
    /\ StartOrJoin(c, op[c], 0, inst, "relaunch")
    /\ UNCHANGED <<closerPc, closerRef, closeCalls, pages>>
    /\ UNCHANGED <<pollVars, pure, limVars>>

\* lines 30-39: the launch succeeded and the .then callback ran
LaunchSucceed(i) ==
    /\ inst[i].st = "launching"
    /\ inst' = [inst EXCEPT ![i].st = "live"]
    /\ sharedBrowser' = i
    /\ sharedBrowserHeadless' = inst[i].mode
    /\ UNCHANGED <<sharedBrowserPromise, launchCount, closerPc, closerRef, closeCalls,
                   op, pages>>
    /\ UNCHANGED <<pollVars, pure, limVars>>

\* a .catch callback that leaves the rejected promise cached
LaunchFailKeepPromise(i) ==
    /\ inst[i].st = "launching"
    /\ inst' = [inst EXCEPT ![i] = [NoInst EXCEPT !.st = "failed"]]
    /\ sharedBrowser' = 0
    /\ sharedBrowserHeadless' = NoMode
    /\ UNCHANGED <<sharedBrowserPromise, launchCount, closerPc, closerRef, closeCalls,
                   op, pages>>
    /\ UNCHANGED <<pollVars, pure, limVars>>

\* lines 40-45: the launch failed and the .catch callback ran
LaunchFail(i) ==
    /\ inst[i].st = "launching"
    /\ inst' = [inst EXCEPT ![i] = [NoInst EXCEPT !.st = "failed"]]
    /\ sharedBrowser' = 0
    /\ sharedBrowserPromise' = 0
    /\ sharedBrowserHeadless' = NoMode
    /\ UNCHANGED <<launchCount, closerPc, closerRef, closeCalls, op, pages>>
    /\ UNCHANGED <<pollVars, pure, limVars>>

\* line 48 seen from the caller: the returned promise has settled
AcquireReturn(c) ==
    /\ op[c].pc = "awaitLaunch"
    /\ inst[op[c].ref].st # "launching"
    /\ IF inst[op[c].ref].st = "failed"
       THEN \* the launch error itself is rethrown (line 44): it carries no code
            op' = [op EXCEPT ![c].pc = "done", ![c].ref = 0,
                             ![c].out = [NoOut EXCEPT !.res = "error", !.code = "uncoded",
                                                      !.at = "acquire"]]
       ELSE op' = [op EXCEPT ![c].pc = "acquired", ![c].browser = op[c].ref, ![c].ref = 0]
    /\ UNCHANGED <<mgrVars, pages>>
    /\ UNCHANGED <<pollVars, pure, limVars>>

\* a 'disconnected' handler that leaves the cache as it is
DisconnectKeepCache(i) ==
    /\ Connected(i)
    /\ inst' = [inst EXCEPT ![i] = [NoInst EXCEPT !.st = "closed"]]
    /\ op' = [c \in Callers |->
                IF op[c].browser = i /\ op[c].ctx = "open"
                THEN [op[c] EXCEPT !.ctx = "lost"] ELSE op[c]]
    /\ UNCHANGED <<sharedBrowser, sharedBrowserPromise, sharedBrowserHeadless,
                   launchCount, closerPc, closerRef, closeCalls, pages>>
    /\ UNCHANGED <<pollVars, pure, limVars>>

\* lines 33-37: the process is gone (close() completed, crash, manual close)
\* and the 'disconnected' handler ran
Disconnect(i) ==
    /\ Connected(i)
    /\ inst' = [inst EXCEPT ![i] = [NoInst EXCEPT !.st = "closed"]]
    /\ sharedBrowser' = 0
    /\ sharedBrowserPromise' = 0
    /\ sharedBrowserHeadless' = NoMode
    \* the contexts of the instance go with it
    /\ op' = [c \in Callers |->
                IF op[c].browser = i /\ op[c].ctx = "open"
                THEN [op[c] EXCEPT !.ctx = "lost"] ELSE op[c]]
    /\ UNCHANGED <<launchCount, closerPc, closerRef, closeCalls, pages>>
    /\ UNCHANGED <<pollVars, pure, limVars>>

\* ------------------------------------------------------ closeSharedBrowser()
\* lines 52-54: return at once with nothing cached, else call close() and await
CloseCall ==
    /\ closerPc = "idle"
    /\ Len(closeCalls) < MaxCloseCalls
    /\ closeCalls' = Append(closeCalls, IF sharedBrowser = 0 THEN "nothing" ELSE "browser")
    /\ IF sharedBrowser = 0
       THEN UNCHANGED <<inst, closerPc, closerRef>>
       ELSE /\ inst' = CloseOf(sharedBrowser)
            /\ closerPc' = "awaitClose"
            /\ closerRef' = sharedBrowser
    /\ UNCHANGED <<sharedBrowser, sharedBrowserPromise, sharedBrowserHeadless,
                   launchCount, op, pages>>
    /\ UNCHANGED <<pollVars, pure, limVars>>

\* a finally block that leaves the cache as it is
CloseFinallyKeepCache ==
    /\ closerPc = "awaitClose"
    /\ inst[closerRef].st = "closed"
    /\ closerPc' = "idle"
    /\ closerRef' = 0
    /\ UNCHANGED <<sharedBrowser, sharedBrowserPromise, sharedBrowserHeadless>>
    /\ UNCHANGED <<inst, launchCount, closeCalls, op, pages>>
    /\ UNCHANGED <<pollVars, pure, limVars>>

\* lines 55-59: the finally block, after the awaited close() settled
CloseFinally ==
    /\ closerPc = "awaitClose"
    /\ inst[closerRef].st = "closed"
    /\ closerPc' = "idle"
    /\ closerRef' = 0
    /\ sharedBrowser' = 0
    /\ sharedBrowserPromise' = 0
    /\ sharedBrowserHeadless' = NoMode
    /\ UNCHANGED <<inst, launchCount, closeCalls, op, pages>>
    /\ UNCHANGED <<pollVars, pure, limVars>>

\* ------------------------------------------- loginAndGetToken, fetchDashboardByToken
Tokens == {"", "tokA", "tokB"}     \* tokenOrUrl as the caller passes it
BaseUrl == "base"

\* new CoreError(code, message)
CoreError(code) == [core |-> TRUE, code |-> code, timeoutMsg |-> FALSE]
\* an error thrown by the automation driver: no code; its message may say "timeout"
DriverError(t) == [core |-> FALSE, code |-> "uncoded", timeoutMsg |-> t]

\* the code a classifier that wraps every driver error as the catch-all gives
ClassifyNoTimeout(kind, e) ==
    IF e.core THEN e.code
    ELSE IF kind = "login" THEN "LOGIN_FAILED" ELSE "DASHBOARD_FETCH_FAILED"

\* the catch blocks, lines 310-317 and 367-374
Classify(kind, e) ==
    IF e.core THEN e.code
    ELSE IF e.timeoutMsg THEN "TIMEOUT"
    ELSE IF kind = "login" THEN "LOGIN_FAILED" ELSE "DASHBOARD_FETCH_FAILED"

\* the awaited steps inside the inner try block, in order
LoginSteps == <<"goto", "waitFrame", "waitEmail", "waitPassword", "fillEmail",
                "fillPassword", "submit", "waitToken", "extractToken">>
FetchSteps == <<"goto", "waitFrame", "locate", "waitReady", "extract">>
Steps(kind) == IF kind = "login" THEN LoginSteps ELSE FetchSteps

\* the CoreErrors a step throws itself
StepCodes(name) ==
    CASE name = "waitFrame" -> {"TIMEOUT"}
      [] name = "waitToken" -> {"TIMEOUT", "LOGIN_INVALID_CREDENTIALS"}
      [] name = "extractToken" -> {"LOGIN_FAILED"}
      [] name = "locate" -> {"TOKEN_INVALID"}
      [] name = "waitReady" -> {"TIMEOUT"}
      [] name = "extract" -> {"DASHBOARD_PARSE_FAILED"}
      [] OTHER -> {}

\* what a step can throw with the browser connected (conn) or gone: with the
\* browser gone every driver call fails with a "closed" error, which is not
\* a timeout; a polling loop may still end on its own clock, and
\* extractTokenParam makes no driver call
StepErrors(name, conn) ==
    {CoreError(k) : k \in {x \in StepCodes(name) :
                              conn \/ x \in {"TIMEOUT", "LOGIN_FAILED"}}}
    \cup (IF name = "extractToken" THEN {}
          ELSE {DriverError(t) : t \in (IF conn THEN BOOLEAN ELSE {FALSE})})

\* whether the step can complete: the loops that read the frame tree
\* synchronously and extractTokenParam can, even with the browser gone
StepCanSucceed(name, conn) == conn \/ name \in {"waitFrame", "waitToken", "extractToken"}

\* who closed the browser a failing driver call found gone
Killer(c, e) ==
    IF ~e.core /\ ~Connected(op[c].browser) THEN op[c].killedBy ELSE 0

\* the page an operation reads: its own local `page` (lines 283, 337)
PageReadLatest(c) == pages[Len(pages)].url
PageRead(c) == pages[op[c].page].url

\* an error that skips the finally block
ThrownNoFinally(c, code, at, k) ==
    op' = [op EXCEPT ![c].pc = "done",
                     ![c].out = [NoOut EXCEPT !.res = "error", !.code = code,
                                              !.at = at, !.killer = k]]

\* an error leaves the try block: the finally block is next (lines 318, 375)
Thrown(c, code, at, k) ==
    op' = [op EXCEPT ![c].pc = "finally", ![c].step = 0,
                     ![c].pend = [NoOut EXCEPT !.res = "error", !.code = code,
                                               !.at = at, !.killer = k]]

\* loginAndGetToken is called: line 280 up to the first await
LoginCall(c, h) ==
    /\ op[c].pc = "idle"
    /\ AcquireEnter(c, Fresh(c, "login", h, ""))
    /\ UNCHANGED <<pollVars, pure, limVars>>

\* a fetch that acquires the browser before it looks at its target
FetchCallAcquireFirst(c, h, t) ==
    /\ op[c].pc = "idle"
    /\ AcquireEnter(c, Fresh(c, "fetch", h, t))
    /\ UNCHANGED <<pollVars, pure, limVars>>

\* fetchDashboardByToken is called: lines 329-334 up to the first await
FetchCall(c, h, t) ==
    /\ op[c].pc = "idle"
    /\ IF t = ""
       THEN /\ op' = [op EXCEPT ![c] =
                        [Fresh(c, "fetch", h, t) EXCEPT
                            !.pc = "done",
                            !.out = [NoOut EXCEPT !.res = "error", !.code = "TOKEN_INVALID",
                                                  !.at = "target"]]]
            /\ UNCHANGED <<mgrVars, pages>>
       ELSE AcquireEnter(c, Fresh(c, "fetch", h, t))
    /\ UNCHANGED <<pollVars, pure, limVars>>

\* lines 281, 335: await browser.newContext(), outside every try block
NewContext(c) ==
    /\ op[c].pc = "acquired"
    /\ op[c].kind \in {"login", "fetch"}
    /\ \/ /\ Connected(op[c].browser)
          /\ op' = [op EXCEPT ![c].pc = "newPage", ![c].ctx = "open",
                              ![c].how = "none", ![c].old = 0, ![c].lc0 = 0]
       \/ \E e \in {DriverError(FALSE)} :
            op' = [op EXCEPT ![c].pc = "done", ![c].browser = 0, ![c].killedBy = 0,
                             ![c].how = "none", ![c].old = 0, ![c].lc0 = 0,
                             ![c].out = [NoOut EXCEPT !.res = "error", !.code = "uncoded",
                                                      !.at = "newContext",
                                                      !.killer = Killer(c, e)]]
    /\ UNCHANGED <<mgrVars, pages>>
    /\ UNCHANGED <<pollVars, pure, limVars>>

\* lines 283, 337: await context.newPage(), inside the outer try only
NewPage(c) ==
    /\ op[c].pc = "newPage"
    /\ \/ /\ Connected(op[c].browser)
          /\ pages' = Append(pages, [url |-> "about:blank"])
          /\ op' = [op EXCEPT ![c].pc = "guarded", ![c].page = Len(pages) + 1,
                              ![c].step = 1]
       \/ /\ \E e \in {DriverError(FALSE)} : Thrown(c, "uncoded", "newPage", Killer(c, e))
          /\ UNCHANGED pages
    /\ UNCHANGED mgrVars
    /\ UNCHANGED <<pollVars, pure, limVars>>

\* the value a completed step leaves behind
StepEffect(c, name) ==
    IF name = "goto"
    THEN /\ pages' = [pages EXCEPT ![op[c].page].url =
                         IF op[c].kind = "login" THEN BaseUrl ELSE op[c].tok]
         /\ op' = [op EXCEPT ![c].step = @ + 1]
    ELSE IF name = "extractToken"
    THEN /\ op' = [op EXCEPT ![c].pc = "finally", ![c].step = 0,
                             ![c].pend = [NoOut EXCEPT !.res = "ok", !.data = "token"]]
         /\ UNCHANGED pages
    ELSE IF name = "extract"
    THEN /\ op' = [op EXCEPT ![c].pc = "finally", ![c].step = 0,
                             ![c].pend = [NoOut EXCEPT !.res = "ok", !.data = PageRead(c)]]
         /\ UNCHANGED pages
    ELSE /\ op' = [op EXCEPT ![c].step = @ + 1]
         /\ UNCHANGED pages

\* one awaited step of lines 287-309 or 340-366, with the catch block
GuardedStep(c) ==
    /\ op[c].pc = "guarded"
    /\ LET name == Steps(op[c].kind)[op[c].step]
           conn == Connected(op[c].browser)
       IN \/ /\ StepCanSucceed(name, conn)
             /\ StepEffect(c, name)
          \/ /\ \E e \in StepErrors(name, conn) :
                  Thrown(c, Classify(op[c].kind, e), "guarded", Killer(c, e))
             /\ UNCHANGED pages
    /\ UNCHANGED mgrVars
    /\ UNCHANGED <<pollVars, pure, limVars>>

\* lines 319, 376: await context.close() in the finally block. close()
\* rejects only when the browser is already gone; its error replaces the
\* operation's result or error.
ContextClose(c) ==
    /\ op[c].pc = "finally"
    /\ \/ op' = [op EXCEPT ![c].pc = "done", ![c].ctx = "closed", ![c].out = op[c].pend,
                           ![c].pend = NoOut, ![c].browser = 0, ![c].page = 0,
                           ![c].killedBy = 0]
       \/ /\ op[c].ctx = "lost"
          /\ op' = [op EXCEPT ![c].pc = "done", ![c].ctx = "closed",
                              ![c].pend = NoOut, ![c].browser = 0, ![c].page = 0,
                              ![c].killedBy = 0,
                              ![c].out = [NoOut EXCEPT !.res = "error", !.code = "uncoded",
                                                       !.at = "close",
                                                       !.killer = op[c].killedBy]]
    /\ UNCHANGED <<mgrVars, pages>>
    /\ UNCHANGED <<pollVars, pure, limVars>>

\* ---------------------------------------------- the manager on its own
InitMgr ==
    /\ sharedBrowser = 0
    /\ sharedBrowserPromise = 0
    /\ sharedBrowserHeadless = NoMode
    /\ inst = [i \in InstIds |-> NoInst]
    /\ launchCount = 0
    /\ closerPc = "idle"
    /\ closerRef = 0
    /\ closeCalls = <<>>

\* no polling loop is running
NoPoll == [pc |-> "off", kind |-> "none", nonBlank |-> FALSE, start |-> 0, timeoutMs |-> 0,
           waitEnd |-> 0, lastState |-> "", result |-> "none", msg |-> ""]
PollOff ==
    /\ now = 0
    /\ dom = "none"
    /\ poll = NoPoll
    /\ readySince = 0 - 1

\* no synchronous function is being followed
\* no error value: what can be thrown is a CoreError with its code, or
\* another value with no code; both have a message
NoErr == [core |-> FALSE, code |-> "", msg |-> <<>>]
\* no frame tree. The frames of a page are numbered from 1, the main frame;
\* parent[f] is the frame that embeds f (0 for the main frame), a frame's
\* children are ordered by number, marker[f] tells whether the selector
\* matches an element of f's document
NoTree == [n |-> 0, parent |-> <<>>, name |-> <<>>, marker |-> <<>>]
NoRet == [code |-> "", str |-> <<>>, token |-> <<>>, state |-> "", headers |-> <<>>,
          data |-> <<>>, rowCount |-> 0, frame |-> 0, thrown |-> NoErr]
NoTable == [body |-> FALSE, inTable |-> FALSE, gaps |-> FALSE, head |-> <<>>, rows |-> <<>>]
NoPure == [fn |-> "none", base |-> <<>>, arg |-> <<>>, tbl |-> NoTable, done |-> FALSE,
           ret |-> NoRet, tree |-> NoTree, path |-> <<>>, root |-> 0, kind |-> "",
           err |-> NoErr, seen |-> NoTable]
PureOff == pure = NoPure

\* ---- the login rate limiter of the server ----
LOGIN_RATE_LIMIT_MAX == 2          \* requests per window (set by the environment)
LOGIN_RATE_LIMIT_WINDOW_MS == 3    \* length of a window, in steps of the clock
MaxClock == 6
MaxRequests == 5

ClientKeys == {"a", "b"}
NoRecord == [present |-> FALSE, count |-> 0, resetAt |-> 0]
\* new Map()
LimiterOff ==
    /\ loginRateLimitStore = [k \in ClientKeys |-> NoRecord]
    /\ clockMs = 0
    /\ reqLog = <<>>

InitBrowser ==
    /\ InitMgr
    /\ op = [c \in Callers |-> IdleOp]
    /\ pages = <<>>
    /\ PollOff
    /\ PureOff
    /\ LimiterOff

NextBrowser ==
    \/ \E c \in Callers, h \in Modes : Acquire(c, h)
    \/ \E c \in Callers : AcquireAfterClose(c)
    \/ \E c \in Callers : AcquireReturn(c)
    \/ \E i \in InstIds : LaunchSucceed(i)
    \/ \E i \in InstIds : LaunchFail(i)
    \/ \E i \in InstIds : Disconnect(i)
    \/ CloseCall
    \/ CloseFinally

SpecBrowser == InitBrowser /\ [][NextBrowser]_vars

\* ------------------------------------- one caller, one call after another
NextSeq ==
    \/ \E h \in Modes : Acquire(1, h)
    \/ AcquireAfterClose(1)
    \/ AcquireReturn(1)
    \/ \E i \in InstIds : LaunchSucceed(i)
    \/ \E i \in InstIds : LaunchFail(i)
    \/ \E i \in InstIds : Disconnect(i)

SpecSeq == InitBrowser /\ [][NextSeq]_vars

\* --------------------------------- the operations on the shared browser
Next ==
    \/ \E c \in Callers, h \in Modes : LoginCall(c, h)
    \/ \E c \in Callers, h \in Modes, t \in Tokens : FetchCall(c, h, t)
    \/ \E c \in Callers : AcquireAfterClose(c)
    \/ \E c \in Callers : AcquireReturn(c)
    \/ \E c \in Callers : NewContext(c)
    \/ \E c \in Callers : NewPage(c)
    \/ \E c \in Callers : GuardedStep(c)
    \/ \E c \in Callers : ContextClose(c)
    \/ \E i \in InstIds : LaunchSucceed(i)
    \/ \E i \in InstIds : LaunchFail(i)
    \/ \E i \in InstIds : Disconnect(i)

\* closeSharedBrowser is left out here: the server calls it from the callback
\* of server.close (lines 599-601), after the last request has ended
Spec == InitBrowser /\ [][Next]_vars

\* ------------------------------------------------------ the polling loops
IntervalMs == 300                 \* page.waitForTimeout(300)
Tick == IntervalMs \div 3         \* the clock advances in steps of 100 ms
TimeoutChoices == {500, 900}      \* timeoutMs as the caller passes it
PollKinds == {"frame", "token", "table"}

\* what one sample can find
DomValues(kind) ==
    CASE kind = "frame" -> {"absent", "blank", "empty", "url"}
      [] kind = "token" -> {"absent", "noToken", "visibleError", "paddedError",
                            "hiddenError", "blankError", "token", "tokenAndError",
                            "detached"}
      [] kind = "table" -> {"noBody", "placeholder", "rowsEmpty", "rows", "detached"}

\* lines 98-103 of waitForFramePath: the frame and its url at the sample
FrameSample(d, nonBlank) ==
    IF (IF nonBlank THEN d # "absent" /\ d # "blank" ELSE d # "absent")
    THEN [to |-> "returned", state |-> d]
    ELSE [to |-> "wait", state |-> d]

\* the #login-error element of the frame: its computed style and its
\* textContent, as whitespace around a core text
NoEl == [present |-> FALSE, display |-> "", visibility |-> "", opacity |-> "",
         pad |-> FALSE, core |-> ""]
DefaultLoginError == "Email atau password salah."
LoginErrorEl(d) ==
    CASE d \in {"visibleError", "tokenAndError"} ->
            [present |-> TRUE, display |-> "block", visibility |-> "visible",
             opacity |-> "1", pad |-> FALSE, core |-> DefaultLoginError]
      [] d = "paddedError" ->
            [present |-> TRUE, display |-> "block", visibility |-> "visible",
             opacity |-> "1", pad |-> TRUE, core |-> "Akun diblokir."]
      [] d = "hiddenError" ->
            [present |-> TRUE, display |-> "none", visibility |-> "visible",
             opacity |-> "1", pad |-> FALSE, core |-> DefaultLoginError]
      [] d = "blankError" ->
            [present |-> TRUE, display |-> "block", visibility |-> "visible",
             opacity |-> "1", pad |-> TRUE, core |-> ""]
      [] OTHER -> NoEl

\* lines 125-141: the function evaluated in the frame
LoginErrorEval(el) ==
    IF ~el.present THEN [visible |-> FALSE, text |-> ""]
    ELSE [visible |-> /\ el.display # "none"
                      /\ el.visibility # "hidden"
                      /\ el.opacity # "0"
                      /\ (el.pad \/ el.core # "")
                      /\ el.core # "",
          text |-> el.core]

\* a message that ignores the element's text
LoginErrorMessageFixed(e) == DefaultLoginError
\* line 144: loginError.text || 'Email atau password salah.'
LoginErrorMessage(e) == IF e.text # "" THEN e.text ELSE DefaultLoginError

\* a sample that inspects the error element before the address
TokenSampleErrorFirst(d) ==
    CASE d = "absent" -> [to |-> "wait", state |-> "", msg |-> ""]
      [] d = "detached" -> [to |-> "raised", state |-> "noToken", msg |-> ""]
      [] LoginErrorEval(LoginErrorEl(d)).visible ->
            [to |-> "failed", state |-> "noToken",
             msg |-> LoginErrorMessage(LoginErrorEval(LoginErrorEl(d)))]
      [] d \in {"token", "tokenAndError"} -> [to |-> "returned", state |-> d, msg |-> ""]
      [] OTHER -> [to |-> "wait", state |-> "noToken", msg |-> ""]

\* lines 116-146 of waitForTokenOrLoginError
TokenSample(d) ==
    CASE d = "absent" -> [to |-> "wait", state |-> "", msg |-> ""]
      [] d \in {"token", "tokenAndError"} -> [to |-> "returned", state |-> d, msg |-> ""]
      [] d = "detached" -> [to |-> "raised", state |-> "noToken", msg |-> ""]
      [] LoginErrorEval(LoginErrorEl(d)).visible ->
            [to |-> "failed", state |-> "noToken",
             msg |-> LoginErrorMessage(LoginErrorEval(LoginErrorEl(d)))]
      [] OTHER -> [to |-> "wait", state |-> "noToken", msg |-> ""]

\* lines 176-202 of waitForDashboardDataReady
TableSample(d) ==
    CASE d = "detached" -> [to |-> "raised", state |-> "unknown"]
      [] d = "noBody" -> [to |-> "wait", state |-> "TABLE_BODY_NOT_FOUND"]
      [] d = "placeholder" -> [to |-> "wait", state |-> "LOADING_PLACEHOLDER"]
      [] d = "rowsEmpty" -> [to |-> "wait", state |-> "ROWS_EMPTY"]
      [] OTHER -> [to |-> "returned", state |-> "READY"]

Sample(kind, d, nonBlank) ==
    CASE kind = "frame" -> FrameSample(d, nonBlank)
      [] kind = "token" -> TokenSample(d)
      [] kind = "table" -> TableSample(d)

\* the predicate of the loop holds of what the page shows
Ready(kind, d, nonBlank) == Sample(kind, d, nonBlank).to = "returned"

\* a wait of twice the interval
WaitEndLong(j) == now + 2 * IntervalMs + j * Tick
\* lines 105, 148, 202: when the wait of 300 ms ends, j ticks late
WaitEnd(j) == now + IntervalMs + j * Tick

PollRunning == poll.pc \in {"check", "sample", "wait"}

\* the loop has just been entered: `start = Date.now()`
InitPoll ==
    /\ InitMgr
    /\ op = [c \in Callers |-> IdleOp]
    /\ pages = <<>>
    /\ PureOff
    /\ LimiterOff
    /\ now = 0
    /\ \E k \in PollKinds, t \in TimeoutChoices, b \in BOOLEAN :
         /\ (k # "frame" => b = FALSE)
         /\ poll = [NoPoll EXCEPT !.pc = "check", !.kind = k, !.nonBlank = b,
                                  !.timeoutMs = t, !.start = 0,
                                  !.lastState = IF k = "table" THEN "unknown" ELSE ""]
         /\ dom \in DomValues(k)
         /\ readySince = IF Ready(k, dom, b) THEN 0 ELSE 0 - 1

\* the page changes under the loop
EnvChange(d) ==
    /\ PollRunning
    /\ d \in DomValues(poll.kind)
    /\ d # dom
    /\ dom' = d
    /\ readySince' = IF ~Ready(poll.kind, d, poll.nonBlank) THEN 0 - 1
                     ELSE IF readySince < 0 THEN now ELSE readySince
    /\ UNCHANGED <<limVars, pure, mgrVars, op, pages, now, poll>>

\* time passes while the loop sleeps in waitForTimeout
TickClock ==
    /\ poll.pc = "wait"
    /\ now < poll.waitEnd
    /\ now < MaxTicks * Tick
    /\ now' = now + Tick
    /\ UNCHANGED <<limVars, pure, mgrVars, op, pages, dom, poll, readySince>>

\* lines 97, 115, 175: the loop condition, and the throw after the loop
PollCheck ==
    /\ poll.pc = "check"
    /\ IF now - poll.start < poll.timeoutMs
       THEN poll' = [poll EXCEPT !.pc = "sample"]
       ELSE poll' = [poll EXCEPT !.pc = "timeout", !.result = "TIMEOUT"]
    /\ UNCHANGED <<limVars, pure, mgrVars, op, pages, now, dom, readySince>>

\* the body of the loop up to its return, throw or wait
PollSample ==
    /\ poll.pc = "sample"
    /\ LET r == Sample(poll.kind, dom, poll.nonBlank) IN
       \E j \in 0..MaxJitterTicks :
         poll' = [poll EXCEPT
                    !.pc = r.to,
                    !.lastState = IF r.to = "raised" THEN @ ELSE r.state,
                    !.waitEnd = IF r.to = "wait" THEN WaitEnd(j) ELSE 0,
                    !.msg = IF r.to = "failed" THEN r.msg ELSE "",
                    !.result = CASE r.to = "returned" -> "ok"
                                 [] r.to = "failed" -> "LOGIN_INVALID_CREDENTIALS"
                                 [] r.to = "raised" -> "uncoded"
                                 [] OTHER -> "none"]
    /\ UNCHANGED <<limVars, pure, mgrVars, op, pages, now, dom, readySince>>

\* waitForTimeout has resolved
PollWake ==
    /\ poll.pc = "wait"
    /\ now >= poll.waitEnd
    /\ poll' = [poll EXCEPT !.pc = "check", !.waitEnd = 0]
    /\ UNCHANGED <<limVars, pure, mgrVars, op, pages, now, dom, readySince>>

NextPoll ==
    \/ \E d \in {"absent", "blank", "empty", "url", "noToken", "visibleError", "token",
                 "paddedError", "hiddenError", "blankError",
                 "tokenAndError", "detached", "noBody", "placeholder", "rowsEmpty",
                 "rows"} : EnvChange(d)
    \/ TickClock
    \/ PollCheck
    \/ PollSample
    \/ PollWake

SpecPoll == InitPoll /\ [][NextPoll]_vars

\* ------------------------------------------------- strings and addresses
\* A string is a sequence of characters, a character a string of length one.
Http == <<"h", "t", "t", "p", ":", "/", "/">>
Https == <<"h", "t", "t", "p", "s", ":", "/", "/">>
TokenName == <<"t", "o", "k", "e", "n">>
TokenEq == TokenName \o <<"=">>

Letters == {"h", "t", "p", "s", "g", "x", "o", "k", "e", "n", "m", "y",
            "H", "T", "P", "S", "R", "U"}
Digits == {"0", "2", "3", "5", "6"}
HexDigits == Digits \cup {"A", "B", "D", "F", "e"}

\* String.prototype.startsWith / includes
StartsWith(s, p) == Len(s) >= Len(p) /\ SubSeq(s, 1, Len(p)) = p
Includes(s, p) == \E i \in 1..(Len(s) - Len(p) + 1) : SubSeq(s, i, i + Len(p) - 1) = p

\* the first position of character ch in s, or 0
IndexOf(s, ch) ==
    IF \E i \in 1..Len(s) : s[i] = ch
    THEN CHOOSE i \in 1..Len(s) : s[i] = ch /\ \A j \in 1..(i - 1) : s[j] # ch
    ELSE 0

\* the characters encodeURIComponent leaves alone: A-Z a-z 0-9 - _ . ! ~ * ' ( )
Unreserved == Letters \cup Digits \cup {"A", "B", "D", "F", "-", "_", ".", "!", "~", "*"}

\* the byte of a character, in hexadecimal
HexTable == {<<" ", "2", "0">>, <<"\"", "2", "2">>, <<"#", "2", "3">>, <<"%", "2", "5">>,
             <<"&", "2", "6">>, <<"+", "2", "B">>, <<"/", "2", "F">>, <<":", "3", "A">>,
             <<"=", "3", "D">>, <<"?", "3", "F">>, <<"R", "5", "2">>, <<"U", "5", "5">>}
HexOf(ch) == LET e == CHOOSE e \in HexTable : e[1] = ch IN <<"%", e[2], e[3]>>
\* the character of a byte; a byte outside the table is a character outside
\* the alphabet
CharOf(h1, h2) ==
    IF \E e \in HexTable : e[2] = h1 /\ e[3] = h2
    THEN (CHOOSE e \in HexTable : e[2] = h1 /\ e[3] = h2)[1]
    ELSE "other"

RECURSIVE EncodeChars(_)
EncodeChars(s) ==
    IF s = <<>> THEN <<>>
    ELSE (IF Head(s) \in Unreserved THEN <<Head(s)>> ELSE HexOf(Head(s)))
         \o EncodeChars(Tail(s))

\* an encoder that leaves every character alone
EncodeNothing(s) == s
\* encodeURIComponent
EncodeURIComponent(s) == EncodeChars(s)

\* percent-decoding, one pass; a % not followed by two hex digits stays
RECURSIVE PercentDecode(_)
PercentDecode(s) ==
    IF s = <<>> THEN <<>>
    ELSE IF Head(s) = "%" /\ Len(s) >= 3 /\ s[2] \in HexDigits /\ s[3] \in HexDigits
         THEN <<CharOf(s[2], s[3])>> \o PercentDecode(SubSeq(s, 4, Len(s)))
         ELSE <<Head(s)>> \o PercentDecode(Tail(s))

\* application/x-www-form-urlencoded: + is a space
PlusToSpace(s) == [i \in 1..Len(s) |-> IF s[i] = "+" THEN " " ELSE s[i]]
FormDecode(s) == PercentDecode(PlusToSpace(s))

RECURSIVE Split(_, _)
Split(s, ch) ==
    LET i == IndexOf(s, ch) IN
    IF i = 0 THEN <<s>>
    ELSE <<SubSeq(s, 1, i - 1)>> \o Split(SubSeq(s, i + 1, Len(s)), ch)

RECURSIVE StripLeft(_)
StripLeft(s) == IF s # <<>> /\ Head(s) = " " THEN StripLeft(Tail(s)) ELSE s
RECURSIVE StripRight(_)
StripRight(s) ==
    IF s # <<>> /\ s[Len(s)] = " " THEN StripRight(SubSeq(s, 1, Len(s) - 1)) ELSE s
RECURSIVE SkipSlashes(_)
SkipSlashes(s) == IF s # <<>> /\ Head(s) = "/" THEN SkipSlashes(Tail(s)) ELSE s

\* s up to the first character of the set stops
RECURSIVE UpTo(_, _)
UpTo(s, stops) ==
    IF s = <<>> \/ Head(s) \in stops THEN <<>> ELSE <<Head(s)>> \o UpTo(Tail(s), stops)

LowerCase(s) ==
    [i \in 1..Len(s) |-> CASE s[i] = "H" -> "h" [] s[i] = "T" -> "t" [] s[i] = "P" -> "p"
                           [] s[i] = "S" -> "s" [] s[i] = "R" -> "r" [] s[i] = "U" -> "u"
                           [] s[i] = "I" -> "i" [] s[i] = "M" -> "m" [] s[i] = "E" -> "e"
                           [] s[i] = "O" -> "o"
                           [] OTHER -> s[i]]

\* new URL(s) without a base: whether it parses, and the query string.
\* Surrounding spaces are dropped; a scheme is required; an http(s) address
\* needs a host; the fragment starts at the first #, the query at the first ?
ParseUrl(s) ==
    LET t == StripRight(StripLeft(s))
        c == IndexOf(t, ":")
        scheme == SubSeq(t, 1, c - 1)
        rest == SubSeq(t, c + 1, Len(t))
        schemeOk == /\ c > 1
                    /\ t[1] \in Letters
                    /\ \A i \in 1..(c - 1) : t[i] \in Letters \cup Digits \cup {"+", "-", "."}
        special == LowerCase(scheme) \in {<<"h", "t", "t", "p">>, <<"h", "t", "t", "p", "s">>}
        host == UpTo(SkipSlashes(rest), {"/", "?", "#"})
        hostOk == host # <<>> /\ \A i \in 1..Len(host) : host[i] \in Letters \cup Digits \cup {".", "-"}
        noFrag == UpTo(rest, {"#"})
        q == IndexOf(noFrag, "?")
    IN  IF schemeOk /\ (special => hostOk)
        THEN [ok |-> TRUE, query |-> IF q = 0 THEN <<>> ELSE SubSeq(noFrag, q + 1, Len(noFrag))]
        ELSE [ok |-> FALSE, query |-> <<>>]

\* URLSearchParams: the name and the value of one piece of the query
ParamOf(piece) ==
    LET e == IndexOf(piece, "=") IN
    IF e = 0 THEN [name |-> FormDecode(piece), value |-> <<>>]
    ELSE [name |-> FormDecode(SubSeq(piece, 1, e - 1)),
          value |-> FormDecode(SubSeq(piece, e + 1, Len(piece)))]

\* searchParams.get(name): the value of the first parameter of that name
SearchParamsGet(query, name) ==
    LET pieces == Split(query, "&")
        hits == {i \in 1..Len(pieces) : pieces[i] # <<>> /\ ParamOf(pieces[i]).name = name}
    IN  IF hits = {} THEN [found |-> FALSE, value |-> <<>>]
        ELSE [found |-> TRUE,
              value |-> ParamOf(pieces[CHOOSE i \in hits : \A j \in hits : i <= j]).value]

\* lines 254-261
extractTokenParam(tokenizedUrl) ==
    LET parsed == ParseUrl(tokenizedUrl) IN
    IF ~parsed.ok THEN <<>>
    ELSE LET got == SearchParamsGet(parsed.query, TokenName) IN
         IF got.found THEN got.value ELSE <<>>

\* lines 263-271
buildTokenizedUrl(baseUrl, tokenOrUrl) ==
    IF tokenOrUrl = <<>> THEN <<>>
    ELSE IF StartsWith(tokenOrUrl, Http) \/ StartsWith(tokenOrUrl, Https) THEN tokenOrUrl
    ELSE LET joiner == IF Includes(baseUrl, <<"?">>) THEN "&" ELSE "?" IN
         baseUrl \o <<joiner>> \o TokenEq \o EncodeURIComponent(tokenOrUrl)

\* a resolve step that returns whatever the parser gives
ResolveTokenAny(urlToken) ==
    [NoRet EXCEPT !.str = urlToken, !.token = extractTokenParam(urlToken)]
\* lines 302-309, and the catch at 311 that passes a CoreError on
ResolveToken(urlToken) ==
    LET token == extractTokenParam(urlToken) IN
    IF token = <<>> THEN [NoRet EXCEPT !.code = Classify("login", CoreError("LOGIN_FAILED"))]
    ELSE [NoRet EXCEPT !.str = urlToken, !.token = token]

\* ------------------------------------------------------ the dashboard table
\* A text is a sequence of words and spaces. A table (NoTable) is: whether
\* #dashboardTableBody exists, whether it lies in a <table>, whether there is
\* whitespace between its cells, the texts of the thead th cells, and the
\* texts of the td/th cells of each tr of the body.
Trim(text) == StripRight(StripLeft(text))

RECURSIVE Flatten(_)
Flatten(ss) == IF ss = <<>> THEN <<>> ELSE Head(ss) \o Flatten(Tail(ss))

\* tableBody.textContent
BodyText(tbl) ==
    LET sep == IF tbl.gaps THEN <<" ">> ELSE <<>>
        rowText(r) == Flatten([i \in 1..Len(r) |-> sep \o r[i] \o sep])
    IN  Flatten([i \in 1..Len(tbl.rows) |-> sep \o rowText(tbl.rows[i]) \o sep])

\* .replace(/\s+/g, ' ')
RECURSIVE Collapse(_)
Collapse(text) ==
    IF Len(text) < 2 THEN text
    ELSE IF text[1] = " " /\ text[2] = " " THEN Collapse(Tail(text))
    ELSE <<Head(text)>> \o Collapse(Tail(text))

LowerWord(w) ==
    CASE w = "Memuat" -> "memuat" [] w = "MEMUAT" -> "memuat" [] w = "DATA" -> "data"
      [] OTHER -> w

\* /^memuat data\.{0,3}$/i
IsPlaceholder(text) ==
    /\ Len(text) >= 3 /\ Len(text) <= 6
    /\ LowerWord(text[1]) = "memuat" /\ text[2] = " " /\ LowerWord(text[3]) = "data"
    /\ \A i \in 4..Len(text) : text[i] = "."

\* rows that have a cell with text
HasText(cells) == \E i \in 1..Len(cells) : Trim(cells[i]) # <<>>

\* the classification without the placeholder test
TableStateRowsOnly(tbl) ==
    IF ~tbl.body THEN "TABLE_BODY_NOT_FOUND"
    ELSE IF \E i \in 1..Len(tbl.rows) : HasText(tbl.rows[i]) THEN "READY" ELSE "ROWS_EMPTY"
\* lines 177-196: what one sample of waitForDashboardDataReady classifies
TableState(tbl) ==
    IF ~tbl.body THEN "TABLE_BODY_NOT_FOUND"
    ELSE IF IsPlaceholder(Trim(Collapse(BodyText(tbl)))) THEN "LOADING_PLACEHOLDER"
    ELSE IF \E i \in 1..Len(tbl.rows) : HasText(tbl.rows[i]) THEN "READY" ELSE "ROWS_EMPTY"

RECURSIVE Keep(_, _)
Keep(ss, dropped) ==
    IF ss = <<>> THEN <<>>
    ELSE (IF Head(ss) \in dropped THEN <<>> ELSE <<Head(ss)>>) \o Keep(Tail(ss), dropped)

\* lines 214-218: the trimmed, non-empty texts of the header cells
Headers(tbl) ==
    IF tbl.inTable THEN Keep([i \in 1..Len(tbl.head) |-> Trim(tbl.head[i])], {<<>>}) ELSE <<>>

\* lines 228-232: the object built from headers and cells, as its properties
\* in order: a header that occurs again overwrites the value of the first
Record(headers, cells) ==
    LET firsts == {i \in 1..Len(headers) : \A j \in 1..(i - 1) : headers[j] # headers[i]}
        last(i) == CHOOSE k \in 1..Len(headers) :
                      /\ headers[k] = headers[i]
                      /\ \A j \in 1..Len(headers) : headers[j] = headers[i] => j <= k
        RECURSIVE props(_)
        props(i) == IF i > Len(headers) THEN <<>>
                    ELSE (IF i \in firsts THEN <<<<headers[i], cells[last(i)]>>>> ELSE <<>>)
                         \o props(i + 1)
    IN  props(1)

\* lines 226-235: one kept row
RowItem(headers, cells) ==
    IF Len(headers) > 0 /\ Len(headers) = Len(cells)
    THEN [keyed |-> TRUE, fields |-> Record(headers, cells), cells |-> <<>>]
    ELSE [keyed |-> FALSE, fields |-> <<>>, cells |-> cells]

RECURSIVE RowItems(_, _)
RowItems(headers, rows) ==
    IF rows = <<>> THEN <<>>
    ELSE LET cells == [i \in 1..Len(Head(rows)) |-> Trim(Head(rows)[i])] IN
         (IF \E i \in 1..Len(cells) : cells[i] # <<>>
          THEN <<RowItem(headers, cells)>> ELSE <<>>)
         \o RowItems(headers, Tail(rows))

\* an extraction that returns an empty table when the body is missing
extractEmptyWithoutBody(tbl) ==
    [null |-> FALSE, headers |-> Headers(tbl),
     data |-> RowItems(Headers(tbl), tbl.rows)]

\* lines 208-252 (headers and data of the value returned; null without a body)
extractDashboardFromTable(tbl) ==
    IF ~tbl.body THEN [null |-> TRUE, headers |-> <<>>, data |-> <<>>]
    ELSE [null |-> FALSE, headers |-> Headers(tbl),
          data |-> RowItems(Headers(tbl), tbl.rows)]

\* a result that counts the rows of the table
DashboardResultCountRows(tbl) ==
    LET extracted == extractDashboardFromTable(tbl) IN
    [NoRet EXCEPT !.rowCount = Len(tbl.rows), !.headers = extracted.headers,
                  !.data = extracted.data]
\* lines 352-366 of fetchDashboardByToken, and the catch at 368
DashboardResult(tbl) ==
    LET extracted == extractDashboardFromTable(tbl) IN
    IF extracted.null
    THEN [NoRet EXCEPT !.code = Classify("fetch", CoreError("DASHBOARD_PARSE_FAILED"))]
    ELSE [NoRet EXCEPT !.rowCount = Len(extracted.data), !.headers = extracted.headers,
                       !.data = extracted.data]

\* the texts of the cells, and the tables made of them
Blank == <<" ">>
Val == <<" ", "1">>
Placeholder == <<"Memuat", " ", "data", ".", ".", ".">>
HeadTexts == {Blank, <<"No">>, <<" ", "Qty">>}
Words == {"Memuat", "DATA", " ", "."}
RowCounts == {0, 1, 2}            \* how many rows the body has
SeqsUpTo(S, n) == UNION {[1..k -> S] : k \in 0..n}
RowsOf(texts) == UNION {[1..k -> SeqsUpTo(texts, MaxCols)] : k \in RowCounts}
TablesOf(texts) ==
    {[NoTable EXCEPT !.body = TRUE, !.inTable = TRUE, !.gaps = g, !.rows = rs] :
        g \in BOOLEAN, rs \in RowsOf(texts)}
OneCellTables ==
    {[NoTable EXCEPT !.body = TRUE, !.inTable = TRUE, !.rows = <<<<t>>>>] :
        t \in SeqsUpTo(Words, MaxWords)}
HeadedTables ==
    {[NoTable EXCEPT !.body = TRUE, !.inTable = it, !.head = h, !.rows = rs] :
        it \in BOOLEAN, h \in SeqsUpTo(HeadTexts, MaxCols),
        rs \in RowsOf({Blank, Val})}

\* the inputs: strings of up to MaxLen characters, among them the ones an
\* address treats specially
\* ---- frames ----
MaxFrames == 4

\* page.mainFrame()
mainFrame == 1
\* frame.childFrames(), in order
childFrames(tree, frame) ==
    SelectSeq([i \in 1..tree.n |-> i], LAMBDA f : tree.parent[f] = frame)

\* a lookup that takes the last child of that name
lastChildByName(tree, frame, name) ==
    LET hits == SelectSeq(childFrames(tree, frame), LAMBDA f : tree.name[f] = name)
    IN IF hits = <<>> THEN 0 ELSE hits[Len(hits)]
\* lines 80-82: frame.childFrames().find((f) => f.name() === name) || null;
\* null is 0
firstChildByName(tree, frame, name) ==
    LET hits == SelectSeq(childFrames(tree, frame), LAMBDA f : tree.name[f] = name)
    IN IF hits = <<>> THEN 0 ELSE hits[1]

\* lines 86-90: the loop over the names, from frame current
RECURSIVE WalkPath(_, _, _)
WalkPath(tree, current, names) ==
    IF names = <<>> THEN current
    ELSE LET next == firstChildByName(tree, current, Head(names))
         IN IF next = 0 THEN 0 ELSE WalkPath(tree, next, Tail(names))

\* lines 84-91
getFrameByPath(tree, names) == WalkPath(tree, mainFrame, names)

\* a search that looks into the children before the frame itself
RECURSIVE findFrameChildrenFirst(_, _), SearchChildrenFirst(_, _)
SearchChildrenFirst(tree, kids) ==
    IF kids = <<>> THEN 0
    ELSE LET found == findFrameChildrenFirst(tree, Head(kids))
         IN IF found # 0 THEN found ELSE SearchChildrenFirst(tree, Tail(kids))
findFrameChildrenFirst(tree, rootFrame) ==
    LET found == SearchChildrenFirst(tree, childFrames(tree, rootFrame))
    IN IF found # 0 THEN found
       ELSE IF tree.marker[rootFrame] THEN rootFrame ELSE 0

\* lines 157-169: rootFrame.$(selector) finds an element, or else the
\* children are searched in order (lines 164-167)
RECURSIVE findFrameContainingSelector(_, _), SearchChildren(_, _)
SearchChildren(tree, kids) ==
    IF kids = <<>> THEN 0
    ELSE LET found == findFrameContainingSelector(tree, Head(kids))
         IN IF found # 0 THEN found ELSE SearchChildren(tree, Tail(kids))
findFrameContainingSelector(tree, rootFrame) ==
    IF tree.marker[rootFrame] THEN rootFrame
    ELSE SearchChildren(tree, childFrames(tree, rootFrame))

\* the path of the frame that holds the application
DataPath == <<"sandboxFrame", "userHtmlFrame">>

\* a search of the whole page only
LocateFromTop(tree) ==
    LET dataFrame == findFrameContainingSelector(tree, mainFrame)
    IN IF dataFrame = 0
       THEN [NoRet EXCEPT !.code = Classify("fetch", CoreError("TOKEN_INVALID"))]
       ELSE [NoRet EXCEPT !.frame = dataFrame]
\* lines 342-349 of fetchDashboardByToken, once waitForFramePath has
\* returned the frame at the path
LocateDataFrame(tree) ==
    LET initialFrame == getFrameByPath(tree, DataPath)
        first == findFrameContainingSelector(tree, initialFrame)
        dataFrame == IF first = 0 THEN findFrameContainingSelector(tree, mainFrame)
                     ELSE first
    IN IF dataFrame = 0
       THEN [NoRet EXCEPT !.code = Classify("fetch", CoreError("TOKEN_INVALID"))]
       ELSE [NoRet EXCEPT !.frame = dataFrame]

\* the frame trees of up to MaxFrames frames
FrameNames == {"sandboxFrame", "userHtmlFrame", "other"}
ParentMaps(n) ==
    {p \in [1..n -> 0..(n - 1)] : p[1] = 0 /\ \A i \in 2..n : p[i] \in 1..(i - 1)}
NameMaps(n, names) ==
    {[i \in 1..n |-> IF i = 1 THEN "" ELSE f[i]] : f \in [2..n -> names]}
FrameTrees(names, marks) ==
    UNION {{[n |-> n, parent |-> p, name |-> nm, marker |-> mk] :
               p \in ParentMaps(n), nm \in NameMaps(n, names), mk \in [1..n -> marks]} :
           n \in 1..MaxFrames}
Paths == SeqsUpTo({"sandboxFrame", "userHtmlFrame"}, 2)

\* ---- the catch blocks, with the message ----
TimeoutWord == <<"t", "i", "m", "e", "o", "u", "t">>
\* lines 310-317 and 367-374: a CoreError is thrown again as it is; any
\* other value becomes a CoreError with the same message
CatchBlock(kind, error) ==
    LET message == error.msg
    IN [core |-> TRUE,
        code |-> Classify(kind, [core |-> error.core, code |-> error.code,
                                 timeoutMsg |-> Includes(LowerCase(message), TimeoutWord)]),
        msg |-> message]

\* messages: a word, maybe with text around it
MessageWords == {TimeoutWord,
                 <<"T", "i", "m", "e", "o", "u", "t">>,
                 <<"T", "I", "M", "E", "O", "U", "T">>,
                 <<"t", "i", "m", "e", "O", "u", "t">>,
                 <<"t", "i", "m", "e", " ", "o", "u", "t">>,
                 <<"t", "i", "m", "e", "o", "u">>,
                 <<"n", "e", "t">>,
                 <<>>}
Messages == {a \o w \o b : a \in {<<>>, <<"x", " ">>}, w \in MessageWords,
                             b \in {<<>>, <<"s">>, <<" ", "3", "0">>}}
ThrownValues ==
    {[core |-> TRUE, code |-> c, msg |-> t] :
        c \in {"TIMEOUT", "LOGIN_INVALID_CREDENTIALS", "LOGIN_FAILED", "TOKEN_INVALID",
               "DASHBOARD_PARSE_FAILED"}, t \in Messages}
    \cup {[core |-> FALSE, code |-> "uncoded", msg |-> t] : t \in Messages}

\* the tables the page's script can show in turn while fetchDashboard runs
ChangingTables ==
    {NoTable} \cup
    {[NoTable EXCEPT !.body = TRUE, !.inTable = TRUE, !.head = h, !.rows = rs] :
        h \in {<<>>, <<<<"No">>>>},
        rs \in {<<>>, <<<<Blank>>>>, <<<<Placeholder>>>>, <<<<Val>>>>,
                <<<<Val>>, <<Blank>>, <<Val>>>>}}

Alphabet == {"x", "%", "2", "5", "+", " ", "&", "=", "#", "?"}
Strs == UNION {[1..n -> Alphabet] : n \in 0..MaxLen}
Bases == {Http \o <<"g">>,
          Http \o <<"g", "/", "x">>,
          Http \o <<"g", "?", "x", "=", "5">>,
          Http \o <<"g", "#", "x">>,
          <<"H", "T", "T", "P", ":", "/", "/", "g">>,
          <<"g", "/", "x">>}

\* the address a frame can show when waitForTokenOrLoginError returns it:
\* any address that contains token=
FrameUrls ==
    {b \o <<sep>> \o pre \o TokenEq \o v :
        b \in {Http \o <<"g">>, <<"g">>}, sep \in {"?", "#"},
        pre \in {<<>>, <<"m", "y">>, <<"x", "=", "5", "&">>}, v \in Strs}

InitPure ==
    /\ InitMgr
    /\ op = [c \in Callers |-> IdleOp]
    /\ pages = <<>>
    /\ PollOff
    /\ LimiterOff
    /\ \/ \E b \in Bases, pre \in {<<>>, Http, Https}, v \in Strs :
            pure = [NoPure EXCEPT !.fn = "build", !.base = b, !.arg = pre \o v]
       \/ \E b \in Bases, v \in Strs :
            pure = [NoPure EXCEPT !.fn = "extract", !.base = b, !.arg = v]
       \/ \E u \in FrameUrls :
            pure = [NoPure EXCEPT !.fn = "resolve", !.arg = u]
       \/ \E t \in {NoTable} \cup TablesOf({Blank, Val, Placeholder}) \cup OneCellTables :
            pure = [NoPure EXCEPT !.fn = "tableState", !.tbl = t]
       \/ \E t \in {NoTable} \cup HeadedTables :
            pure = [NoPure EXCEPT !.fn = "result", !.tbl = t]
       \/ \E t \in FrameTrees(FrameNames, {FALSE}), names \in Paths :
            pure = [NoPure EXCEPT !.fn = "byPath", !.tree = t, !.path = names]
       \/ \E t \in FrameTrees({"other"}, BOOLEAN) : \E f \in 1..t.n :
            pure = [NoPure EXCEPT !.fn = "containing", !.tree = t, !.root = f]
       \/ \E t \in FrameTrees(FrameNames, BOOLEAN) :
            /\ getFrameByPath(t, DataPath) # 0
            /\ pure = [NoPure EXCEPT !.fn = "locate", !.tree = t]
       \/ \E k \in {"login", "fetch"}, e \in ThrownValues :
            pure = [NoPure EXCEPT !.fn = "catch", !.kind = k, !.err = e]
       \/ \E t \in ChangingTables :
            pure = [NoPure EXCEPT !.fn = "fetchTable", !.tbl = t]

\* buildTokenizedUrl(base, arg) returns
ApplyBuild ==
    /\ pure.fn = "build" /\ ~pure.done
    /\ pure' = [pure EXCEPT !.done = TRUE, !.ret.str = buildTokenizedUrl(pure.base, pure.arg)]
    /\ UNCHANGED <<mgrVars, op, pages, pollVars, limVars>>

\* extractTokenParam returns, called with base + "?token=" + encode(arg)
ApplyExtract ==
    /\ pure.fn = "extract" /\ ~pure.done
    /\ pure' = [pure EXCEPT
                  !.done = TRUE,
                  !.ret.str = pure.base \o <<"?">> \o TokenEq \o EncodeURIComponent(pure.arg),
                  !.ret.token = extractTokenParam(pure.base \o <<"?">> \o TokenEq
                                                  \o EncodeURIComponent(pure.arg))]
    /\ UNCHANGED <<mgrVars, op, pages, pollVars, limVars>>

\* login resolves the token from the address of the frame
ApplyResolve ==
    /\ pure.fn = "resolve" /\ ~pure.done
    /\ pure' = [pure EXCEPT !.done = TRUE, !.ret = ResolveToken(pure.arg)]
    /\ UNCHANGED <<mgrVars, op, pages, pollVars, limVars>>

\* one sample of waitForDashboardDataReady classifies the table
ApplyTableState ==
    /\ pure.fn = "tableState" /\ ~pure.done
    /\ pure' = [pure EXCEPT !.done = TRUE, !.ret.state = TableState(pure.tbl)]
    /\ UNCHANGED <<mgrVars, op, pages, pollVars, limVars>>

\* fetchDashboard extracts the table and builds its result
ApplyResult ==
    /\ pure.fn = "result" /\ ~pure.done
    /\ pure' = [pure EXCEPT !.done = TRUE, !.ret = DashboardResult(pure.tbl)]
    /\ UNCHANGED <<mgrVars, op, pages, pollVars, limVars>>

\* getFrameByPath returns
ApplyByPath ==
    /\ pure.fn = "byPath" /\ ~pure.done
    /\ pure' = [pure EXCEPT !.done = TRUE,
                            !.ret.frame = getFrameByPath(pure.tree, pure.path)]
    /\ UNCHANGED <<mgrVars, op, pages, pollVars, limVars>>

\* findFrameContainingSelector returns
ApplyContaining ==
    /\ pure.fn = "containing" /\ ~pure.done
    /\ pure' = [pure EXCEPT !.done = TRUE,
                            !.ret.frame = findFrameContainingSelector(pure.tree, pure.root)]
    /\ UNCHANGED <<mgrVars, op, pages, pollVars, limVars>>

\* fetchDashboard has chosen the data frame, or failed
ApplyLocate ==
    /\ pure.fn = "locate" /\ ~pure.done
    /\ pure' = [pure EXCEPT !.done = TRUE, !.ret = LocateDataFrame(pure.tree)]
    /\ UNCHANGED <<mgrVars, op, pages, pollVars, limVars>>

\* the catch block of login or fetchDashboard has thrown
ApplyCatch ==
    /\ pure.fn = "catch" /\ ~pure.done
    /\ pure' = [pure EXCEPT !.done = TRUE,
                            !.ret.thrown = CatchBlock(pure.kind, pure.err),
                            !.ret.code = CatchBlock(pure.kind, pure.err).code]
    /\ UNCHANGED <<mgrVars, op, pages, pollVars, limVars>>

\* line 351: the sample of waitForDashboardDataReady that finds the table
\* ready; the loop returns
ReadySample ==
    /\ pure.fn = "fetchTable" /\ ~pure.done /\ pure.ret.state = ""
    /\ TableState(pure.tbl) = "READY"
    /\ pure' = [pure EXCEPT !.ret.state = "READY", !.seen = pure.tbl]
    /\ UNCHANGED <<mgrVars, op, pages, pollVars, limVars>>

\* the page's script rewrites the table, before the loop has seen it ready
\* or between that sample and the evaluation of line 352
TableChange(t) ==
    /\ pure.fn = "fetchTable" /\ ~pure.done
    /\ pure.tbl = pure.seen \/ pure.ret.state = ""
    /\ t # pure.tbl
    /\ pure' = [pure EXCEPT !.tbl = t]
    /\ UNCHANGED <<mgrVars, op, pages, pollVars, limVars>>

\* lines 352-366: the table is read and the result is built
ExtractAfterReady ==
    /\ pure.fn = "fetchTable" /\ ~pure.done /\ pure.ret.state = "READY"
    /\ pure' = [pure EXCEPT !.done = TRUE,
                            !.ret = [DashboardResult(pure.tbl) EXCEPT !.state = "READY"]]
    /\ UNCHANGED <<mgrVars, op, pages, pollVars, limVars>>

NextPure ==
    \/ ReadySample
    \/ \E t \in ChangingTables : TableChange(t)
    \/ ExtractAfterReady
    \/ ApplyByPath
    \/ ApplyContaining
    \/ ApplyLocate
    \/ ApplyCatch
    \/ ApplyBuild
    \/ ApplyExtract
    \/ ApplyResolve
    \/ ApplyTableState
    \/ ApplyResult

SpecPure == InitPure /\ [][NextPure]_vars

\* the instance a caller is waiting for or holds
\* the requests: the x-forwarded-for header as its list of addresses (none
\* when the header is missing) and the address of the socket
Requests ==
    {[forwardedFor |-> f, ip |-> "a"] : f \in {<<>>, <<"b">>, <<"b", "a">>}}
    \cup {[forwardedFor |-> <<>>, ip |-> "b"]}

\* getClientIp: the first address of x-forwarded-for, else req.ip
getClientIp(req) ==
    IF req.forwardedFor # <<>> THEN req.forwardedFor[1] ELSE req.ip

\* a limiter that lets one more request through
enforceOneMore(record, t) ==
    IF ~record.present \/ t >= record.resetAt
    THEN [status |-> "next",
          record |-> [present |-> TRUE, count |-> 1,
                      resetAt |-> t + LOGIN_RATE_LIMIT_WINDOW_MS]]
    ELSE IF record.count > LOGIN_RATE_LIMIT_MAX
    THEN [status |-> "429 LOGIN_RATE_LIMITED", record |-> record]
    ELSE [status |-> "next", record |-> [record EXCEPT !.count = @ + 1]]
\* enforceLoginRateLimit on the record of the key at time t: the answer
\* (next() or the 429 response) and the record stored afterwards
enforceLoginRateLimit(record, t) ==
    IF ~record.present \/ t >= record.resetAt
    THEN [status |-> "next",
          record |-> [present |-> TRUE, count |-> 1,
                      resetAt |-> t + LOGIN_RATE_LIMIT_WINDOW_MS]]
    ELSE IF record.count >= LOGIN_RATE_LIMIT_MAX
    THEN [status |-> "429 LOGIN_RATE_LIMITED", record |-> record]
    ELSE [status |-> "next", record |-> [record EXCEPT !.count = @ + 1]]

\* POST /auth/login arrives and the middleware runs
LoginRequest(req) ==
    /\ Len(reqLog) < MaxRequests
    /\ LET ip == getClientIp(req)
           r == enforceLoginRateLimit(loginRateLimitStore[ip], clockMs)
       IN /\ loginRateLimitStore' = [loginRateLimitStore EXCEPT ![ip] = r.record]
          /\ reqLog' = Append(reqLog, [ip |-> ip, at |-> clockMs, status |-> r.status])
    /\ UNCHANGED <<clockMs, mgrVars, op, pages, pollVars, pure>>

\* time passes
ClockAdvance ==
    /\ clockMs < MaxClock
    /\ clockMs' = clockMs + 1
    /\ UNCHANGED <<loginRateLimitStore, reqLog, mgrVars, op, pages, pollVars, pure>>

InitLimiter ==
    /\ InitMgr
    /\ op = [c \in Callers |-> IdleOp]
    /\ pages = <<>>
    /\ PollOff
    /\ PureOff
    /\ LimiterOff

NextLimiter ==
    \/ \E req \in Requests : LoginRequest(req)
    \/ ClockAdvance

SpecLimiter == InitLimiter /\ [][NextLimiter]_vars

Target(c) == IF op[c].pc = "awaitLaunch" THEN op[c].ref ELSE op[c].browser

\* C1: under every interleaving of acquire calls, disconnect notifications
\* and closeSharedBrowser, at most one browser instance is live (launched
\* and not yet closed or disconnected).
C1_AtMostOneLive == Cardinality(LiveSet) <= 1

\* C2: an acquire call issued while a launch is in flight and nothing is
\* live starts no further launch and waits for an in-flight launch.
C2_JoinsInFlightLaunch ==
    [][\A c \in Callers :
         (/\ op'[c].calls = op[c].calls + 1
          /\ LiveSet = {}
          /\ sharedBrowser = 0
          /\ InFlight # {})
         => (/\ launchCount' = launchCount
             /\ op'[c].pc = "awaitLaunch"
             /\ op'[c].ref \in InFlight)]_vars

\* C3: callers that suspended on closing the same live instance to change
\* the display mode all get one and the same new launch: no second launch
\* replaces the one in flight.
C3_RelaunchSerialized ==
    \A c, d \in Callers :
        (/\ c # d
         /\ op[c].how = "relaunch" /\ op[d].how = "relaunch"
         /\ op[c].old = op[d].old
         /\ op[c].pc \in {"awaitLaunch", "acquired"}
         /\ op[d].pc \in {"awaitLaunch", "acquired"})
        => Target(c) = Target(d)

Codes == {"TIMEOUT", "LOGIN_FAILED", "LOGIN_INVALID_CREDENTIALS", "TOKEN_INVALID",
          "DASHBOARD_PARSE_FAILED", "DASHBOARD_FETCH_FAILED", "LAUNCH_FAILED"}

\* C5: when the launch fails, the login or fetchDashboard call that was
\* waiting for it fails with an error whose code is LAUNCH_FAILED.
C5_LaunchFailedCode ==
    \A c \in Callers :
        (op[c].pc = "done" /\ op[c].out.at = "acquire") => op[c].out.code = "LAUNCH_FAILED"

\* C6: a browsing context exists only inside the operation that created it:
\* whenever an operation has returned or thrown (success, coded failure or
\* unexpected exception) its context is closed, so no context is open once
\* all operations have finished.
C6_ContextsClosed ==
    \A c \in Callers :
        op[c].pc \in {"idle", "awaitClose", "awaitLaunch", "acquired", "done"}
        => op[c].ctx \in {"none", "closed"}

\* one operation has succeeded and one has died of an uncoded exception
\* outside the inner try block; both have closed their contexts
C6_Witness ==
    /\ op[1].pc = "done" /\ op[1].out.res = "ok" /\ op[1].ctx = "closed"
    /\ op[2].pc = "done" /\ op[2].out.at = "newPage" /\ op[2].ctx = "closed"

\* C7: what a fetchDashboard call returns is read from the page it opened
\* for its own token, whatever other calls run at the same time.
C7_Isolated ==
    \A c \in Callers :
        op[c].kind = "fetch" =>
            /\ op[c].out.res = "ok" => op[c].out.data = op[c].tok
            /\ op[c].pend.res = "ok" => op[c].pend.data = op[c].tok

\* call 2 opened its page for tokB first and is still reading it while
\* call 1, whose page for tokA was opened later, has returned its data
C7_Witness ==
    /\ op[1].kind = "fetch" /\ op[1].tok = "tokA"
    /\ op[1].pc = "done" /\ op[1].out.res = "ok"
    /\ op[2].kind = "fetch" /\ op[2].tok = "tokB"
    /\ op[2].pc = "guarded" /\ op[2].page = 1 /\ op[2].step > 1
    /\ Len(pages) = 2

\* C8: no operation fails because another operation's acquire call closed
\* the browser it was using.
C8_NoInterference ==
    \A c \in Callers : op[c].out.killer = 0 /\ op[c].pend.killer = 0

\* C9: every operation ends with a result or with an error that carries one
\* of the specified codes, whatever step failed.
C9_CodedOutcome ==
    \A c \in Callers :
        op[c].pc = "done" =>
            \/ op[c].out.res = "ok"
            \/ op[c].out.res = "error" /\ op[c].out.code \in Codes

\* the longest a wait lasts
Slack == IntervalMs + MaxJitterTicks * Tick

C11_FrameReturnedReady ==
    (poll.kind = "frame" /\ poll.pc = "returned") =>
        /\ poll.lastState = dom
        /\ poll.lastState # "absent"
        /\ poll.nonBlank => poll.lastState \notin {"blank", "empty"}

\* C12: in waitForTokenOrLoginError, a sample that finds the frame with no
\* token in its address and the #login-error element visible with text T
\* ends the loop at once with LOGIN_INVALID_CREDENTIALS and message T, and
\* the catch block of login passes that error on unchanged; the loop fails
\* this way only on such a sample.
C12_VisibleLoginError ==
    /\ []((poll.kind = "token" /\ poll.pc = "failed") =>
            /\ poll.result = "LOGIN_INVALID_CREDENTIALS"
            /\ Classify("login", CoreError(poll.result)) = "LOGIN_INVALID_CREDENTIALS"
            /\ LoginErrorEl(dom).display # "none"
            /\ LoginErrorEl(dom).core # ""
            /\ poll.msg = LoginErrorEl(dom).core)
    /\ [][(/\ poll.kind = "token" /\ poll.pc = "sample" /\ poll'.pc # "sample"
           /\ dom \notin {"absent", "detached", "token", "tokenAndError"}
           /\ LoginErrorEl(dom).present
           /\ LoginErrorEl(dom).display # "none"
           /\ LoginErrorEl(dom).visibility # "hidden"
           /\ LoginErrorEl(dom).opacity # "0"
           /\ LoginErrorEl(dom).core # "")
          => (poll'.pc = "failed" /\ poll'.msg = LoginErrorEl(dom).core)]_vars

\* the error element appeared, with padded text, while the loop slept and
\* the next sample failed with its text, before the deadline
C12_Witness ==
    /\ poll.kind = "token" /\ poll.pc = "failed"
    /\ dom = "paddedError"
    /\ now > 0 /\ now < poll.start + poll.timeoutMs

\* C13: login never returns an empty token. When the address of the frame
\* contains token= but has no non-empty token parameter (?token=, ?mytoken=x,
\* token= in the fragment, an address that does not parse) the resolve step
\* fails with LOGIN_FAILED; on success the token is the token parameter of
\* the tokenized address returned with it.
C13_NoEmptyToken ==
    (pure.fn = "resolve" /\ pure.done) =>
        /\ Includes(pure.arg, TokenEq)
        /\ pure.ret.code \in {"", "LOGIN_FAILED"}
        /\ pure.ret.code = "" =>
              /\ pure.ret.token # <<>>
              /\ pure.ret.str = pure.arg
              /\ pure.ret.token = extractTokenParam(pure.ret.str)
        /\ pure.ret.code = "LOGIN_FAILED" => pure.ret.token = <<>> /\ pure.ret.str = <<>>
        /\ pure.arg \in {Http \o <<"g", "?">> \o TokenEq,
                         Http \o <<"g", "?", "m", "y">> \o TokenEq \o <<"x">>,
                         Http \o <<"g", "#">> \o TokenEq \o <<"x">>,
                         <<"g", "?">> \o TokenEq \o <<"x">>}
              => pure.ret.code = "LOGIN_FAILED"
        /\ pure.arg = Http \o <<"g", "?">> \o TokenEq \o <<"x", "%", "2">>
              => pure.ret.token = <<"x", "%", "2">>

\* the address was ...?mytoken=x and login failed with LOGIN_FAILED
C13_Witness ==
    /\ pure.fn = "resolve" /\ pure.done
    /\ pure.arg = Http \o <<"g", "?", "m", "y">> \o TokenEq \o <<"x">>
    /\ pure.ret.code = "LOGIN_FAILED"

\* C15: buildTokenizedUrl(base, buildTokenizedUrl(base, raw)) =
\* buildTokenizedUrl(base, raw) for every base and every non-empty raw, and
\* buildTokenizedUrl(base, "") is the empty string.
C15_BuildIdempotent ==
    (pure.fn = "build" /\ pure.done) =>
        IF pure.arg = <<>> THEN pure.ret.str = <<>>
        ELSE buildTokenizedUrl(pure.base, pure.ret.str) = pure.ret.str

\* C16 as stated: for every base address and every token t,
\* extractTokenParam(base + "?token=" + encode(t)) = t.
C16_RoundTripAnyBase ==
    (pure.fn = "extract" /\ pure.done /\ ParseUrl(pure.base).ok) => pure.ret.token = pure.arg

\* C16 amended: for every absolute base address that has no query and no
\* fragment, and every token t, extractTokenParam(base + "?token=" +
\* encode(t)) = t.
C16_RoundTrip ==
    (/\ pure.fn = "extract" /\ pure.done
     /\ StartsWith(pure.base, Http)
     /\ ~Includes(pure.base, <<"?">>) /\ ~Includes(pure.base, <<"#">>))
    => pure.ret.token = pure.arg

\* a token made of characters that need percent-encoding came back unchanged
C16_Witness ==
    /\ pure.fn = "extract" /\ pure.done
    /\ pure.base = Http \o <<"g", "/", "x">>
    /\ pure.arg = <<"&", "+", "%">>
    /\ pure.ret.str = pure.base \o <<"?">> \o TokenEq
                        \o <<"%", "2", "6", "%", "2", "B", "%", "2", "5">>
    /\ pure.ret.token = pure.arg

\* C14: fetchDashboard with an empty tokenOrUrl fails with TOKEN_INVALID in
\* the step that calls it, before any navigation: no browser is acquired or
\* launched, no context or page is created, and nothing else changes.
C14_EmptyTokenNoEffect ==
    /\ [](\A c \in Callers :
            op[c].out.at = "target" =>
                /\ op[c].out.code = "TOKEN_INVALID"
                /\ op[c].tok = "" /\ op[c].ctx = "none"
                /\ op[c].browser = 0 /\ op[c].page = 0)
    /\ [][\A c \in Callers :
            (op[c].pc = "idle" /\ op'[c].pc # "idle" /\ op'[c].kind = "fetch"
             /\ op'[c].tok = "")
            => /\ op'[c].pc = "done"
               /\ op'[c].out.res = "error" /\ op'[c].out.code = "TOKEN_INVALID"
               /\ mgrVars' = mgrVars
               /\ pages' = pages
               /\ \A d \in Callers \ {c} : op'[d] = op[d]]_vars

\* a fetch with an empty token has failed while the other caller's
\* operation was running on a live browser
C14_Witness ==
    /\ op[1].pc = "done" /\ op[1].out.at = "target"
    /\ op[2].pc = "guarded"
    /\ launchCount = 1 /\ Len(pages) = 1

\* C17: a sample at which the whitespace-normalized text of the table body
\* is "Memuat data" followed by up to three dots, in any letter case, is
\* classified LOADING_PLACEHOLDER, also when that text sits in a row cell;
\* READY is reported only when the body exists, is not the placeholder and
\* has a row with a non-empty cell.
C17_PlaceholderNeverReady ==
    (pure.fn = "tableState" /\ pure.done) =>
        LET text == Trim(Collapse(BodyText(pure.tbl)))
            lower == [i \in 1..Len(text) |-> LowerWord(text[i])]
            isPlaceholder ==
                /\ pure.tbl.body
                /\ lower \in {<<"memuat", " ", "data">>,
                              <<"memuat", " ", "data", ".">>,
                              <<"memuat", " ", "data", ".", ".">>,
                              <<"memuat", " ", "data", ".", ".", ".">>}
        IN  /\ isPlaceholder => pure.ret.state = "LOADING_PLACEHOLDER"
            /\ pure.ret.state = "LOADING_PLACEHOLDER" => isPlaceholder
            /\ pure.ret.state = "READY" =>
                  /\ pure.tbl.body
                  /\ ~isPlaceholder
                  /\ \E i \in 1..Len(pure.tbl.rows) :
                        \E j \in 1..Len(pure.tbl.rows[i]) :
                          Trim(pure.tbl.rows[i][j]) # <<>>

\* the placeholder text sits in the one cell of the one row, with
\* whitespace around the cell, and the sample is not ready
C17_Witness ==
    /\ pure.fn = "tableState" /\ pure.done
    /\ pure.tbl.rows = <<<<Placeholder>>>> /\ pure.tbl.gaps
    /\ pure.ret.state = "LOADING_PLACEHOLDER"

\* the records C18 describes: head are the texts of the header cells
RECURSIVE ExpectedItems(_, _)
ExpectedItems(head, rows) ==
    IF rows = <<>> THEN <<>>
    ELSE LET cells == [i \in 1..Len(Head(rows)) |-> Trim(Head(rows)[i])] IN
         (IF \A i \in 1..Len(cells) : cells[i] = <<>> THEN <<>>
          ELSE IF Len(cells) = Len(head)
          THEN <<[keyed |-> TRUE,
                  fields |-> [i \in 1..Len(head) |-> <<Trim(head[i]), cells[i]>>],
                  cells |-> <<>>]>>
          ELSE <<[keyed |-> FALSE, fields |-> <<>>, cells |-> cells]>>)
         \o ExpectedItems(head, Tail(rows))

\* C18: rows whose cells are all empty are dropped; a remaining row with as
\* many cells as the header row has header cells becomes a record keyed by
\* the header texts in order; any other remaining row is emitted as the
\* sequence of its cell texts; rowCount counts the items.
C18_RowsToRecords ==
    (pure.fn = "result" /\ pure.done /\ pure.tbl.body) =>
        /\ pure.ret.data = ExpectedItems(IF pure.tbl.inTable THEN pure.tbl.head ELSE <<>>,
                                         pure.tbl.rows)
        /\ pure.ret.rowCount = Len(pure.ret.data)

\* C19: every result fetchDashboard returns has rowCount = length(data).
C19_RowCountIsLength ==
    (pure.fn = "result" /\ pure.done /\ pure.ret.code = "") =>
        pure.ret.rowCount = Len(pure.ret.data)

\* of two rows one was empty and dropped, the other became a keyed record
C19_Witness ==
    /\ pure.fn = "result" /\ pure.done /\ pure.ret.code = ""
    /\ Len(pure.tbl.rows) = 2
    /\ pure.ret.rowCount = 1
    /\ pure.ret.data[1].keyed

\* C20: closeSharedBrowser called when no instance is live (nothing is
\* cached) returns at once: it changes no state and closes nothing. A call
\* that closed an instance leaves the cache empty, so that calling it again
\* right after is such a call: twice in a row has the effect of once.
C20_CloseIdempotent ==
    /\ [][(closeCalls' # closeCalls /\ (LiveSet = {} \/ sharedBrowser = 0))
          => /\ sharedBrowser = 0
             /\ closerPc' = "idle"
             /\ UNCHANGED <<sharedBrowser, sharedBrowserPromise, sharedBrowserHeadless,
                            inst, launchCount, op, pages>>]_vars
    /\ [][(closerPc = "awaitClose" /\ closerPc' = "idle")
          => /\ inst[closerRef].st = "closed"
             /\ sharedBrowser' = 0
             /\ sharedBrowserPromise' = 0
             /\ sharedBrowserHeadless' = NoMode
             /\ UNCHANGED inst]_vars

\* closeSharedBrowser has been called twice in a row and has returned
\* twice: the first call closed the one instance launched, the second found
\* nothing cached
C20_Witness ==
    /\ closeCalls = <<"browser", "nothing">> /\ closerPc = "idle"
    /\ launchCount = 1 /\ inst[1].st = "closed"
    /\ sharedBrowser = 0 /\ sharedBrowserPromise = 0 /\ sharedBrowserHeadless = NoMode

\* nothing is cached
CacheEmpty ==
    sharedBrowser = 0 /\ sharedBrowserPromise = 0 /\ sharedBrowserHeadless = NoMode

\* C21: when closeSharedBrowser returns, no instance is live, no launch
\* started by an earlier acquire is still in flight, and the cached handle,
\* launch and mode are absent; also when it was called during a launch or
\* an acquire ran while it awaited the close.
C21_ReleasedAfterClose ==
    [][(\/ (closeCalls' # closeCalls /\ closerPc' = "idle")
        \/ (closerPc = "awaitClose" /\ closerPc' = "idle"))
       => (LiveSet' = {} /\ InFlight' = {} /\ CacheEmpty')]_vars

\* C22: the disconnect of an instance clears the cached handle, launch and
\* mode; an acquire called with the cache so cleared starts a new launch, and
\* no acquire call returns or waits for a disconnected instance.
C22_DisconnectInvalidates ==
    [][/\ \A i \in InstIds :
            (Connected(i) /\ inst'[i].st = "closed") => CacheEmpty'
       /\ \A c \in Callers :
            op'[c].calls = op[c].calls + 1 =>
                /\ CacheEmpty =>
                      /\ launchCount' = launchCount + 1
                      /\ op'[c].pc = "awaitLaunch" /\ op'[c].ref = launchCount'
                      /\ inst'[launchCount'].st = "launching"
                /\ op'[c].pc = "acquired" => inst'[op'[c].browser].st \in {"live", "closing"}
                /\ op'[c].pc = "awaitLaunch" =>
                      inst'[op'[c].ref].st \in {"launching", "live", "closing"}]_vars

\* the first instance crashed (nobody closed it) and the caller's next
\* acquire launched and obtained a second one
C22_Witness ==
    /\ inst[1].st = "closed" /\ closeCalls = <<>>
    /\ op[1].calls = 2 /\ op[2].calls = 0
    /\ op[1].how = "launch" /\ op[1].pc = "acquired" /\ op[1].browser = 2
    /\ inst[2].st = "live"

\* C26: a failed launch leaves nothing cached; every caller that awaits it
\* ends with the failure, never with an instance; and an acquire called
\* after it starts one fresh launch and does not wait for the failed one.
C26_FailedLaunchReset ==
    [][/\ \A i \in InstIds :
            (inst[i].st = "launching" /\ inst'[i].st = "failed") => CacheEmpty'
       /\ \A c \in Callers :
            /\ (op[c].pc = "awaitLaunch" /\ inst[op[c].ref].st = "failed"
                 /\ op'[c] # op[c] /\ op'[c].calls = op[c].calls)
               => (op'[c].pc = "done" /\ op'[c].out.res = "error")
            /\ op'[c].pc = "acquired" => inst'[op'[c].browser].st # "failed"
            /\ op'[c].calls = op[c].calls + 1 =>
                  /\ (op'[c].pc = "awaitLaunch" => inst'[op'[c].ref].st # "failed")
                  /\ CacheEmpty =>
                        /\ launchCount' = launchCount + 1
                        /\ op'[c].ref = launchCount']_vars

\* both callers awaited the first launch; it failed, caller 2 has seen the
\* failure, and caller 1, having seen it, has acquired again and waits for
\* a fresh launch
C26_Witness ==
    /\ inst[1].st = "failed"
    /\ op[2].calls = 1 /\ op[2].pc = "done" /\ op[2].out.res = "error"
    /\ op[1].calls = 2 /\ op[1].pc = "awaitLaunch" /\ op[1].ref = 2
    /\ launchCount = 2 /\ inst[2].st = "launching"

\* C29: waitForFramePath ends only by returning a ready frame (found by the
\* walk of its last iteration and, with requireNonBlankUrl, loaded) or, once
\* timeoutMs has elapsed, with TIMEOUT; it ends with no other error.
C29_FrameLoopEndings ==
    poll.kind = "frame" =>
        /\ poll.pc \in {"check", "sample", "wait", "returned", "timeout"}
        /\ poll.pc = "timeout" =>
              (poll.result = "TIMEOUT" /\ now - poll.start >= poll.timeoutMs)
        /\ poll.pc = "returned" =>
              /\ poll.result = "ok"
              /\ dom # "absent"
              /\ poll.nonBlank => dom \notin {"blank", "empty"}

\* C30: waitForTokenOrLoginError ends only by returning a frame whose
\* address contains token=, with LOGIN_INVALID_CREDENTIALS, or with TIMEOUT;
\* waitForDashboardDataReady ends only ready or with TIMEOUT; a frame that
\* is detached while a sample is evaluated is a sample that is not ready.
C30_OnlyListedEndings ==
    /\ poll.kind = "token" =>
          /\ poll.pc \in {"check", "sample", "wait", "returned", "failed", "timeout"}
          /\ poll.result \in {"none", "ok", "LOGIN_INVALID_CREDENTIALS", "TIMEOUT"}
    /\ poll.kind = "table" =>
          /\ poll.pc \in {"check", "sample", "wait", "returned", "timeout"}
          /\ poll.result \in {"none", "ok", "TIMEOUT"}

\* the frames of the subtree of frame f in pre-order: f, then the subtrees
\* of its children in order
RECURSIVE PreOrder(_, _), PreOrderAll(_, _)
PreOrderAll(tree, kids) ==
    IF kids = <<>> THEN <<>>
    ELSE PreOrder(tree, Head(kids)) \o PreOrderAll(tree, Tail(kids))
PreOrder(tree, f) ==
    <<f>> \o PreOrderAll(tree, SelectSeq([i \in 1..tree.n |-> i],
                                         LAMBDA g : tree.parent[g] = f))
\* the first frame of a list that holds the marker, or 0
FirstMarked(tree, frames) ==
    IF \E k \in 1..Len(frames) : tree.marker[frames[k]]
    THEN frames[CHOOSE k \in 1..Len(frames) :
                    /\ tree.marker[frames[k]]
                    /\ \A j \in 1..(k - 1) : ~tree.marker[frames[j]]]
    ELSE 0

\* C23: fetchDashboard takes as data frame the first frame, in pre-order,
\* of the subtree of the frame at sandboxFrame > userHtmlFrame that holds
\* the marker; if that subtree holds none, the first such frame of the whole
\* page in pre-order; if the page holds none it fails with TOKEN_INVALID.
C23_SubtreeThenPage ==
    (pure.fn = "locate" /\ pure.done) =>
        LET t == pure.tree
            inSub == FirstMarked(t, PreOrder(t, getFrameByPath(t, DataPath)))
            inPage == FirstMarked(t, PreOrder(t, 1))
        IN /\ inSub # 0 => (pure.ret.frame = inSub /\ pure.ret.code = "")
           /\ (inSub = 0 /\ inPage # 0) => (pure.ret.frame = inPage /\ pure.ret.code = "")
           /\ inPage = 0 => (pure.ret.frame = 0 /\ pure.ret.code = "TOKEN_INVALID")

\* the marker is in a frame outside the path and, later in the page's
\* pre-order, in the frame at the path: the frame at the path is taken
C23_Witness ==
    /\ pure.fn = "locate" /\ pure.done
    /\ pure.tree.n = 4
    /\ pure.tree.parent = <<0, 1, 1, 3>>
    /\ pure.tree.name = <<"", "other", "sandboxFrame", "userHtmlFrame">>
    /\ pure.tree.marker = <<FALSE, TRUE, FALSE, TRUE>>
    /\ pure.ret.frame = 4

\* the message says timeout, in any letter case
MentionsTimeout(msg) ==
    \E i \in 1..(Len(msg) - 6) :
        /\ msg[i] \in {"t", "T"} /\ msg[i + 1] \in {"i", "I"} /\ msg[i + 2] \in {"m", "M"}
        /\ msg[i + 3] \in {"e", "E"} /\ msg[i + 4] \in {"o", "O"}
        /\ msg[i + 5] \in {"u", "U"} /\ msg[i + 6] \in {"t", "T"}

\* C24: the catch block of login and of fetchDashboard throws a coded error
\* again as it is; it turns any other error into TIMEOUT when the message
\* contains "timeout" in any letter case and else into LOGIN_FAILED (login)
\* or DASHBOARD_FETCH_FAILED (fetchDashboard), with the message unchanged.
C24_CatchClassifies ==
    (pure.fn = "catch" /\ pure.done) =>
        /\ pure.ret.thrown.core
        /\ pure.ret.thrown.msg = pure.err.msg
        /\ pure.err.core => pure.ret.thrown = pure.err
        /\ (~pure.err.core /\ MentionsTimeout(pure.err.msg)) =>
              pure.ret.thrown.code = "TIMEOUT"
        /\ (~pure.err.core /\ ~MentionsTimeout(pure.err.msg)) =>
              pure.ret.thrown.code =
                  IF pure.kind = "login" THEN "LOGIN_FAILED" ELSE "DASHBOARD_FETCH_FAILED"

\* a driver error whose message says Timeout, with a capital, inside a
\* longer text, has become TIMEOUT in fetchDashboard
C24_Witness ==
    /\ pure.fn = "catch" /\ pure.done /\ pure.kind = "fetch"
    /\ ~pure.err.core
    /\ pure.err.msg = <<"x", " ", "T", "i", "m", "e", "o", "u", "t", " ", "3", "0">>
    /\ pure.ret.thrown.code = "TIMEOUT"

\* C25: when the document has no #dashboardTableBody at extraction,
\* fetchDashboard fails with DASHBOARD_PARSE_FAILED and its result holds
\* no headers, no records and no count; with the element it does not fail so.
C25_NoBodyParseFailed ==
    (pure.fn = "result" /\ pure.done) =>
        /\ ~pure.tbl.body =>
              /\ pure.ret.code = "DASHBOARD_PARSE_FAILED"
              /\ pure.ret.headers = <<>> /\ pure.ret.data = <<>> /\ pure.ret.rowCount = 0
        /\ pure.tbl.body => pure.ret.code = ""

\* extraction ran on a document without the table body
C25_Witness ==
    /\ pure.fn = "result" /\ pure.done
    /\ ~pure.tbl.body
    /\ pure.ret.code = "DASHBOARD_PARSE_FAILED"

\* child c of frame p is the first child of p named nm
IsFirstNamed(tree, p, c, nm) ==
    /\ tree.parent[c] = p /\ tree.name[c] = nm
    /\ \A d \in 1..(c - 1) : ~(tree.parent[d] = p /\ tree.name[d] = nm)

\* C27: getFrameByPath returns the top frame for the empty path; else the
\* last frame of the chain that starts at the top frame and takes, for each
\* name, the first child of that name; and null when this chain breaks,
\* whatever later children of the same name hold.
C27_FirstChildWalk ==
    (pure.fn = "byPath" /\ pure.done) =>
        LET t == pure.tree
            names == pure.path
            L == Len(names)
            Chains == {f \in [1..L -> 1..t.n] :
                          \A k \in 1..L :
                              IsFirstNamed(t, IF k = 1 THEN 1 ELSE f[k - 1], f[k], names[k])}
        IN pure.ret.frame = IF L = 0 THEN 1
                            ELSE IF Chains = {} THEN 0
                            ELSE (CHOOSE f \in Chains : TRUE)[L]

\* the first frame named sandboxFrame has no child userHtmlFrame, a later
\* frame of the same name has one: the walk ends with null
C27_Witness ==
    /\ pure.fn = "byPath" /\ pure.done
    /\ pure.tree.n = 4
    /\ pure.tree.parent = <<0, 1, 1, 3>>
    /\ pure.tree.name = <<"", "sandboxFrame", "sandboxFrame", "userHtmlFrame">>
    /\ pure.path = DataPath
    /\ pure.ret.frame = 0

\* C28: findFrameContainingSelector returns the first frame, in pre-order
\* of the tree below the frame it is given, that holds the marker, and null
\* exactly when no frame of that tree holds it.
C28_PreOrderFirst ==
    (pure.fn = "containing" /\ pure.done) =>
        LET t == pure.tree
            order == PreOrder(t, pure.root)
        IN /\ pure.ret.frame = FirstMarked(t, order)
           /\ pure.ret.frame = 0 <=> \A k \in 1..Len(order) : ~t.marker[order[k]]

\* the marker is in a grandchild on the first branch and in the second
\* child of the top frame: the grandchild is returned
C28_Witness ==
    /\ pure.fn = "containing" /\ pure.done
    /\ pure.root = 1
    /\ pure.tree.n = 4
    /\ pure.tree.parent = <<0, 1, 2, 1>>
    /\ pure.tree.marker = <<FALSE, FALSE, TRUE, TRUE>>
    /\ pure.ret.frame = 3

\* C31: a sample of waitForTokenOrLoginError that finds token= in the
\* address of the frame returns the frame, also when the error element is
\* visible; the loop ends through the error element (with its error, or
\* with the failure of its evaluation) only on a sample where the frame
\* exists and its address has no token.
C31_TokenBeforeError ==
    [][(poll.kind = "token" /\ poll.pc = "sample" /\ poll'.pc # "sample") =>
          /\ dom \in {"token", "tokenAndError"} =>
                (poll'.pc = "returned" /\ poll'.result = "ok" /\ poll'.msg = "")
          /\ poll'.pc \in {"failed", "raised"} =>
                dom \notin {"absent", "token", "tokenAndError"}]_vars

\* the page showed the token address together with the visible error
\* element when it was sampled, and the loop returned
C31_Witness ==
    /\ poll.kind = "token" /\ poll.pc = "returned"
    /\ dom = "tokenAndError" /\ poll.lastState = "tokenAndError"
    /\ LoginErrorEval(LoginErrorEl(dom)).visible

\* C32: an acquire(h) call that obtains a connected instance obtains one
\* that was launched with display mode h, in every interleaving.
C32_HandleHasRequestedMode ==
    [][\A c \in Callers :
          (op'[c].pc = "acquired" /\ op'[c] # op[c] /\ inst'[op'[c].browser].st \in {"live", "closing"})
          => inst'[op'[c].browser].mode = op'[c].req]_vars

\* the item is the loading placeholder: its only text is "Memuat data..."
IsPlaceholderItem(item) ==
    \/ ~item.keyed /\ Len(item.cells) = 1 /\ IsPlaceholder(item.cells[1])
    \/ item.keyed /\ Len(item.fields) = 1 /\ IsPlaceholder(item.fields[1][2])

\* C33: every result fetchDashboard returns has rowCount >= 1 and no record
\* that is the loading placeholder, also when the page rewrites the table
\* between the sample that found it ready and the read of the extraction.
C33_ResultHasData ==
    (pure.fn = "fetchTable" /\ pure.done /\ pure.ret.code = "") =>
        /\ pure.ret.rowCount >= 1
        /\ \A k \in 1..Len(pure.ret.data) : ~IsPlaceholderItem(pure.ret.data[k])

\* C34: every keyed record of the extraction has as many fields as its row
\* has cells, and its i-th field is the i-th header with the text of the
\* row's i-th cell, whatever the header row, repeated header texts included.
C34_RecordMirrorsRow ==
    (pure.fn = "result" /\ pure.done) =>
        \A k \in 1..Len(pure.ret.data) :
            pure.ret.data[k].keyed =>
                \E r \in 1..Len(pure.tbl.rows) :
                    LET cells == pure.tbl.rows[r]
                        fields == pure.ret.data[k].fields
                    IN /\ Len(fields) = Len(cells)
                       /\ \A i \in 1..Len(cells) :
                             fields[i] = <<pure.ret.headers[i], Trim(cells[i])>>

\* the answers the claim's rule gives to requests at the given times: a
\* window opens at the first request, and at the first request at or after
\* the end of the window before; ws is the start of the open window (-1:
\* none), cnt the requests let through in it
RECURSIVE ExpectedAnswers(_, _, _)
ExpectedAnswers(times, ws, cnt) ==
    IF times = <<>> THEN <<>>
    ELSE IF ws < 0 \/ Head(times) >= ws + LOGIN_RATE_LIMIT_WINDOW_MS
    THEN <<"next">> \o ExpectedAnswers(Tail(times), Head(times), 1)
    ELSE IF cnt < LOGIN_RATE_LIMIT_MAX
    THEN <<"next">> \o ExpectedAnswers(Tail(times), ws, cnt + 1)
    ELSE <<"429 LOGIN_RATE_LIMITED">> \o ExpectedAnswers(Tail(times), ws, cnt)

\* the requests of one key, in order
RequestsOf(k) == SelectSeq(reqLog, LAMBDA e : e.ip = k)

\* C35: for each key the limiter lets through at most LOGIN_RATE_LIMIT_MAX
\* requests per window of LOGIN_RATE_LIMIT_WINDOW_MS that starts at the
\* first counted request; a request at or after the reset time opens a new
\* window with count 1; a request answered 429 leaves the store as it is;
\* and a request changes no record but that of its own key.
C35_RateLimitWindows ==
    /\ [](\A k \in ClientKeys :
            LET mine == RequestsOf(k)
                rec == loginRateLimitStore[k]
            IN /\ [i \in 1..Len(mine) |-> mine[i].status]
                    = ExpectedAnswers([i \in 1..Len(mine) |-> mine[i].at], 0 - 1, 0)
               /\ rec.present <=> mine # <<>>
               /\ rec.present =>
                     /\ rec.count \in 1..LOGIN_RATE_LIMIT_MAX
                     /\ rec.count = Cardinality(
                            {i \in 1..Len(mine) :
                                /\ mine[i].status = "next"
                                /\ mine[i].at >= rec.resetAt - LOGIN_RATE_LIMIT_WINDOW_MS})
               /\ \A i \in 1..Len(mine) :
                     Cardinality({j \in 1..Len(mine) :
                                    /\ mine[j].status = "next"
                                    /\ mine[j].at >= mine[i].at
                                    /\ mine[j].at < mine[i].at + LOGIN_RATE_LIMIT_WINDOW_MS
                                    /\ \A h \in 1..(i - 1) :
                                          mine[h].at + LOGIN_RATE_LIMIT_WINDOW_MS <= mine[i].at
                                          \/ mine[h].status # "next"})
                     <= LOGIN_RATE_LIMIT_MAX)
    /\ [][Len(reqLog') = Len(reqLog) + 1 =>
            LET e == reqLog'[Len(reqLog')] IN
            /\ e.status = "429 LOGIN_RATE_LIMITED" =>
                  loginRateLimitStore' = loginRateLimitStore
            /\ (loginRateLimitStore[e.ip].present
                 /\ e.at >= loginRateLimitStore[e.ip].resetAt) =>
                  /\ e.status = "next"
                  /\ loginRateLimitStore'[e.ip].count = 1
                  /\ loginRateLimitStore'[e.ip].resetAt = e.at + LOGIN_RATE_LIMIT_WINDOW_MS
            /\ \A k \in ClientKeys \ {e.ip} :
                  loginRateLimitStore'[k] = loginRateLimitStore[k]]_vars

\* key a has used its window and was answered 429; at that same time key b
\* was let through; and a's next request, after the reset time, opened a
\* new window with count 1
C35_Witness ==
    /\ Len(reqLog) = LOGIN_RATE_LIMIT_MAX + 3
    /\ \A i \in 1..LOGIN_RATE_LIMIT_MAX : reqLog[i].ip = "a" /\ reqLog[i].status = "next"
    /\ reqLog[LOGIN_RATE_LIMIT_MAX + 1].ip = "a"
    /\ reqLog[LOGIN_RATE_LIMIT_MAX + 1].status = "429 LOGIN_RATE_LIMITED"
    /\ reqLog[LOGIN_RATE_LIMIT_MAX + 2].ip = "b"
    /\ reqLog[LOGIN_RATE_LIMIT_MAX + 2].status = "next"
    /\ reqLog[LOGIN_RATE_LIMIT_MAX + 2].at = reqLog[LOGIN_RATE_LIMIT_MAX + 1].at
    /\ reqLog[LOGIN_RATE_LIMIT_MAX + 3].ip = "a"
    /\ reqLog[LOGIN_RATE_LIMIT_MAX + 3].status = "next"
    /\ reqLog[LOGIN_RATE_LIMIT_MAX + 3].at >= reqLog[1].at + LOGIN_RATE_LIMIT_WINDOW_MS
    /\ loginRateLimitStore["a"].count = 1

====
